---- MODULE Spec2Model ----
(***************************************************************************)
(* Model of the Multi_Model_Option_Pricer_DLL library: the yield curve,    *)
(* the valuation-date arithmetic, the control flow of the four pricing     *)
(* engines (which maturity, time step and short rates each one uses, and   *)
(* which error ends a call) and the exported host entry points.            *)
(*                                                                         *)
(* A C++ double is modelled as an exact rational [k |-> "fin", n, d] in    *)
(* lowest terms, or one of the IEEE special values "pinf", "ninf", "nan".  *)
(* Rounding is not modelled; exp and sqrt are never evaluated, only        *)
(* compared through their monotonicity.                                    *)
(***************************************************************************)
EXTENDS Integers, Sequences, FiniteSets, TLC

VARIABLES data_, now, file, pricer, ret

vars == <<data_, now, file, pricer, ret>>

----------------------------------------------------------------------------
(* Doubles as exact rationals with the IEEE special values.                *)

Abs(x) == IF x < 0 THEN -x ELSE x

RECURSIVE GCD(_, _)
GCD(a, b) == IF b = 0 THEN a ELSE GCD(b, a % b)

Fin(n, d) ==
    LET g == GCD(Abs(n), Abs(d))
        s == IF d < 0 THEN -1 ELSE 1
    IN  [k |-> "fin", n |-> (s * n) \div g, d |-> (s * d) \div g]

NaN == [k |-> "nan", n |-> 0, d |-> 1]
PInf == [k |-> "pinf", n |-> 0, d |-> 1]
NInf == [k |-> "ninf", n |-> 0, d |-> 1]

Zero == Fin(0, 1)
One == Fin(1, 1)

IsFin(a) == a.k = "fin"

LCM(a, b) == (a \div GCD(a, b)) * b

(* Sign (-1, 0, 1) of a/b - c/d for b, d > 0, by continued fractions, so  *)
(* that no product of two large numbers is ever formed.                    *)
RECURSIVE FracCmp(_, _, _, _)
FracCmp(a, b, c, d) ==
    LET qa == a \div b
        qc == c \div d
        ra == a % b
        rc == c % d
    IN  IF qa # qc THEN (IF qa < qc THEN -1 ELSE 1)
        ELSE IF ra = 0 /\ rc = 0 THEN 0
        ELSE IF ra = 0 THEN -1
        ELSE IF rc = 0 THEN 1
        ELSE -FracCmp(b, ra, d, rc)

(* Sign of the comparison a ? b for finite a, b: -1, 0 or 1. *)
FinCmp(a, b) == FracCmp(a.n, a.d, b.n, b.d)

(* IEEE comparisons: every comparison with NaN is false. *)
Lt(a, b) ==
    IF a.k = "nan" \/ b.k = "nan" THEN FALSE
    ELSE IF a.k = "pinf" \/ b.k = "ninf" THEN FALSE
    ELSE IF a.k = "ninf" \/ b.k = "pinf" THEN TRUE
    ELSE FinCmp(a, b) < 0

Le(a, b) ==
    IF a.k = "nan" \/ b.k = "nan" THEN FALSE
    ELSE IF a.k = b.k /\ a.k # "fin" THEN TRUE
    ELSE IF a.k = "pinf" \/ b.k = "ninf" THEN FALSE
    ELSE IF a.k = "ninf" \/ b.k = "pinf" THEN TRUE
    ELSE FinCmp(a, b) <= 0

Gt(a, b) == Lt(b, a)
Ge(a, b) == Le(b, a)

(* Arithmetic. The model only ever adds, subtracts and multiplies finite  *)
(* values; a non-finite operand yields NaN.                                *)
Add(a, b) ==
    IF ~IsFin(a) \/ ~IsFin(b) THEN NaN
    ELSE LET L == LCM(a.d, b.d)
         IN  Fin(a.n * (L \div a.d) + b.n * (L \div b.d), L)

Neg(a) == IF IsFin(a) THEN Fin(-a.n, a.d) ELSE NaN

Sub(a, b) == Add(a, Neg(b))

Mul(a, b) ==
    IF ~IsFin(a) \/ ~IsFin(b) THEN NaN
    ELSE LET g1 == GCD(Abs(a.n), b.d)
             g2 == GCD(Abs(b.n), a.d)
         IN  Fin((a.n \div g1) * (b.n \div g2), (a.d \div g2) * (b.d \div g1))

(* IEEE division: x/0 is an infinity of the sign of x, 0/0 is NaN. *)
Div(a, b) ==
    IF ~IsFin(a) \/ ~IsFin(b) THEN NaN
    ELSE IF b.n = 0
         THEN IF a.n > 0 THEN PInf ELSE IF a.n < 0 THEN NInf ELSE NaN
    ELSE LET s == IF b.n < 0 THEN -1 ELSE 1
         IN  Mul(a, Fin(s * b.d, Abs(b.n)))

----------------------------------------------------------------------------
(* Bounds and input domains.                                               *)

MaxPoints == 3

Maturities == {Zero, Fin(1, 2), One}
Rates == {Fin(1, 100), Fin(5, 100)}
Queries == {Fin(i, 4) : i \in -1..5}

RatePoint(m, r) == [maturity |-> m, rate |-> r]

----------------------------------------------------------------------------
(* YieldCurve.                                                             *)

Ok(v) == [kind |-> "value", err |-> "", value |-> v]
Err(e) == [kind |-> "error", err |-> e, value |-> NaN]

(* The loop of getRate: the first index i >= 2 (1-based) whose maturity   *)
(* is above t decides; falling off the end returns the last rate.          *)
RECURSIVE InterpolateSwapped(_, _, _)
InterpolateSwapped(data, t, i) ==
    IF i > Len(data) THEN data[Len(data)].rate
    ELSE IF Lt(t, data[i].maturity)
         THEN LET p0 == data[i - 1]
                  p1 == data[i]
                  factor == Div(Sub(t, p0.maturity), Sub(p1.maturity, p0.maturity))
              IN  Add(p1.rate, Mul(factor, Sub(p0.rate, p1.rate)))
    ELSE InterpolateSwapped(data, t, i + 1)

(* A loop that always interpolates between the last two points. *)
InterpolateLastPair(data, t, i) ==
    LET p0 == data[Len(data) - 1]
        p1 == data[Len(data)]
        factor == Div(Sub(t, p0.maturity), Sub(p1.maturity, p0.maturity))
    IN  Add(p0.rate, Mul(factor, Sub(p1.rate, p0.rate)))

RECURSIVE Interpolate(_, _, _)
Interpolate(data, t, i) ==
    IF i > Len(data) THEN data[Len(data)].rate
    ELSE IF Lt(t, data[i].maturity)
         THEN LET p0 == data[i - 1]
                  p1 == data[i]
                  factor == Div(Sub(t, p0.maturity), Sub(p1.maturity, p0.maturity))
              IN  Add(p0.rate, Mul(factor, Sub(p1.rate, p0.rate)))
    ELSE Interpolate(data, t, i + 1)

GetRateThrowsOnSingleton(data, t) ==
    IF Len(data) <= 1 THEN Err("EmptyCurve")
    ELSE IF Le(t, data[1].maturity) THEN Ok(data[1].rate)
    ELSE IF Ge(t, data[Len(data)].maturity) THEN Ok(data[Len(data)].rate)
    ELSE Ok(Interpolate(data, t, 2))

GetRateLastFirst(data, t) ==
    IF data = <<>> THEN Err("EmptyCurve")
    ELSE IF Ge(t, data[Len(data)].maturity) THEN Ok(data[Len(data)].rate)
    ELSE IF Le(t, data[1].maturity) THEN Ok(data[1].rate)
    ELSE Ok(Interpolate(data, t, 2))

getRate(data, t) ==
    IF data = <<>> THEN Err("EmptyCurve")
    ELSE IF Le(t, data[1].maturity) THEN Ok(data[1].rate)
    ELSE IF Ge(t, data[Len(data)].maturity) THEN Ok(data[Len(data)].rate)
    ELSE Ok(Interpolate(data, t, 2))

NoFile == [exists |-> FALSE, lines |-> <<>>]
Idle == [op |-> "idle"]

(* YieldCurve::addRatePoint *)
AddRatePoint ==
    /\ Len(data_) < MaxPoints
    /\ \E m \in Maturities, r \in Rates :
          /\ data_' = Append(data_, RatePoint(m, r))
          /\ ret' = [op |-> "addRatePoint", t |-> m, out |-> Ok(r)]
    /\ UNCHANGED <<now, file, pricer>>

(* YieldCurve::getRate *)
GetRate ==
    /\ \E t \in Queries :
          ret' = [op |-> "getRate", t |-> t, out |-> getRate(data_, t)]
    /\ UNCHANGED <<data_, now, file, pricer>>

InitCurve ==
    /\ data_ = <<>>
    /\ now = 0
    /\ file = NoFile
    /\ pricer = [type |-> "none"]
    /\ ret = Idle

NextCurve == AddRatePoint \/ GetRate

SpecCurve == InitCurve /\ [][NextCurve]_vars

----------------------------------------------------------------------------
(* DateConverter. The clock counts ticks; a date string is empty, not a    *)
(* date, or names a day; parseDate gives the local midnight of that day.   *)

TicksPerHour == 2
HoursPerDay == 24
DayTicks == HoursPerDay * TicksPerHour
DaysPerYear == Fin(36525, 100)

EmptyDate == [k |-> "empty", day |-> 0]
BadDate == [k |-> "bad", day |-> 0]
Day(d) == [k |-> "day", day |-> d]

getTodayDate(clock) == Day(clock \div DayTicks)

parseDate(dateStr) ==
    IF dateStr.k = "day"
    THEN [ok |-> TRUE, time |-> dateStr.day * DayTicks]
    ELSE [ok |-> FALSE, time |-> 0]

(* duration_cast<hours> truncates toward zero. *)
TruncDiv(a, b) == IF a >= 0 THEN a \div b ELSE -((-a) \div b)

yearsBetween(start, end) ==
    LET hours == TruncDiv(end - start, TicksPerHour)
    IN  Div(Div(Fin(hours, 1), Fin(HoursPerDay, 1)), DaysPerYear)

----------------------------------------------------------------------------
(* Option and PricingConfiguration.                                        *)

Option(S, K, sigma, q, type, style) ==
    [underlying |-> S, strike |-> K, volatility |-> sigma, dividend |-> q,
     type |-> type, style |-> style]

DefaultBinomialSteps == 100
DefaultCrankTimeSteps == 100
DefaultCrankSpotSteps == 100
DefaultMcNumPaths == 10000
DefaultMcTimeSteps == 100

PricingConfiguration ==
    [calculationDate |-> EmptyDate, maturity |-> One, riskFreeRate |-> Fin(2, 1),
     yieldCurve |-> <<>>, binomialSteps |-> DefaultBinomialSteps,
     crankTimeSteps |-> DefaultCrankTimeSteps,
     crankSpotSteps |-> DefaultCrankSpotSteps, S_max |-> Zero,
     mcNumPaths |-> DefaultMcNumPaths, mcTimeStepsPerPath |-> DefaultMcTimeSteps]

----------------------------------------------------------------------------
(* What a price or computeGreeks call ends in: a value, with the maturity, *)
(* the time step and the short rates (in loop order) it was computed from, *)
(* or an error. payoffs tells whether the terminal payoffs were computed,  *)
(* priced how many price calls a bump-and-reprice call made.               *)

(* What the model knows of a returned double: its sign ("neg", "zero",     *)
(* "pos", "nan", or "unk" when the sign depends on the values of exp and   *)
(* sqrt) and, for a Monte Carlo price, which is a mean payoff times one    *)
(* discount factor exp(logDisc): what determines the mean payoff (gross)   *)
(* and logDisc.                                                            *)
Double(sign, gross, logDisc) ==
    [sign |-> sign, gross |-> gross, logDisc |-> logDisc]

NoGross == [style |-> "none"]
Unknown == Double("unk", NoGross, NaN)

Value(Teff, dt, rates) ==
    [kind |-> "value", err |-> "", Teff |-> Teff, dt |-> dt, rates |-> rates,
     payoffs |-> TRUE, priced |-> 0, price |-> Unknown]

Fail(e, payoffs) ==
    [kind |-> "error", err |-> e, Teff |-> NaN, dt |-> NaN, rates |-> <<>>,
     payoffs |-> payoffs, priced |-> 0, price |-> Double("none", NoGross, NaN)]

(* The block shared by BlackScholes and CrankNicolson: T_effective = T, or *)
(* T - yearsBetween(calcDate, now) when the calculation date is not empty. *)
EffectiveMaturity(config, clock) ==
    IF config.calculationDate.k = "empty"
    THEN [ok |-> TRUE, T |-> config.maturity]
    ELSE LET calcDate == parseDate(config.calculationDate)
         IN  IF ~calcDate.ok THEN [ok |-> FALSE, T |-> NaN]
             ELSE [ok |-> TRUE,
                   T |-> Sub(config.maturity, yearsBetween(calcDate.time, clock))]

(* r_local of CrankNicolson and MonteCarlo: the curve when it holds points, *)
(* the default rate otherwise.                                              *)
LocalRate(config, normTime) ==
    IF config.yieldCurve # <<>>
    THEN getRate(config.yieldCurve, normTime).value
    ELSE config.riskFreeRate

----------------------------------------------------------------------------
(* BlackScholesPricer.                                                     *)

(* The closed form is a function of the option, one rate and T_effective; *)
(* its value is not computed.                                              *)
BlackScholesDouble(opt, r, Teff) ==
    Double("unk", [style |-> "closed", opt |-> opt, r |-> r, T |-> Teff], NaN)

BlackScholesValue(opt, r, Teff) ==
    [Value(Teff, Teff, <<r>>) EXCEPT !.price = BlackScholesDouble(opt, r, Teff)]

BlackScholesPriceParseFirst(opt, config, clock) ==
    LET te == EffectiveMaturity(config, clock)
    IN  IF ~te.ok THEN Fail("ParseError", FALSE)
        ELSE IF opt.style # "European" THEN Fail("UnsupportedStyle", FALSE)
        ELSE BlackScholesValue(opt, config.riskFreeRate, te.T)

(* A closed form whose rate is read from the curve when it holds points. *)
BlackScholesPriceCurveRate(opt, config, clock) ==
    IF opt.style # "European" THEN Fail("UnsupportedStyle", FALSE)
    ELSE LET te == EffectiveMaturity(config, clock)
         IN  IF ~te.ok THEN Fail("ParseError", FALSE)
             ELSE BlackScholesValue(opt, LocalRate(config, One), te.T)

BlackScholesPrice(opt, config, clock) ==
    IF opt.style # "European" THEN Fail("UnsupportedStyle", FALSE)
    ELSE LET te == EffectiveMaturity(config, clock)
         IN  IF ~te.ok THEN Fail("ParseError", FALSE)
             ELSE BlackScholesValue(opt, config.riskFreeRate, te.T)

BlackScholesGreeks(opt, config, clock) ==
    IF opt.style # "European" THEN Fail("UnsupportedStyle", FALSE)
    ELSE LET te == EffectiveMaturity(config, clock)
         IN  IF ~te.ok THEN Fail("ParseError", FALSE)
             ELSE BlackScholesValue(opt, config.riskFreeRate, te.T)

----------------------------------------------------------------------------
(* BinomialPricer.                                                         *)

(* Where p = (exp((rate - q) dt) - d) / (u - d) lies, with u = exp(s),     *)
(* d = 1/u, s = sigma sqrt(dt) and sigma > 0: "below" 0, "above" 1, "in"   *)
(* [0,1], or "nan". For dt > 0, p < 0 iff (rate-q) dt < -s and p > 1 iff   *)
(* (rate-q) dt > s, that is iff ((rate-q)/sigma)^2 > 1/dt, with the sign   *)
(* of rate - q. dt <= 0 gives sqrt(dt) = NaN or u = d; dt = +inf gives     *)
(* inf/inf, or 0/inf when rate < q.                                        *)
ProbabilityClass(rate, q, sigma, dt) ==
    IF ~IsFin(dt)
    THEN (IF dt.k = "pinf" /\ Lt(rate, q) THEN "in" ELSE "nan")
    ELSE IF Le(dt, Zero) THEN "nan"
    ELSE LET x == Sub(rate, q)
             ratio == Div(x, sigma)
         IN  IF Gt(Mul(ratio, ratio), Div(One, dt))
             THEN (IF Lt(x, Zero) THEN "below" ELSE "above")
             ELSE "in"

(* t_norm = i / N of the backward induction, i = N-1 down to 0. *)
BinomialQueries(config) ==
    LET N == config.binomialSteps
    IN  [k \in 1..N |-> Div(Fin(N - k, 1), Fin(N, 1))]

(* The getRate calls of the backward induction, i = N-1 down to 0. *)
BinomialRates(config) ==
    [k \in 1..config.binomialSteps |->
        getRate(config.yieldCurve, BinomialQueries(config)[k])]

(* A validity check that misses p > 1. *)
BinomialUnstableBelowOnly(p) == p = "below"

(* if (p < 0.0 || p > 1.0) throw *)
BinomialUnstable(p) == p \in {"below", "above"}

(* Signs of doubles. std::max(a, b) is (a < b) ? b : a, so it returns a    *)
(* when either argument is NaN.                                            *)
SignMul(a, b) ==
    IF a = "nan" \/ b = "nan" THEN "nan"
    ELSE IF a = "zero" \/ b = "zero" THEN "zero"
    ELSE IF a = "unk" \/ b = "unk" THEN "unk"
    ELSE IF a = b THEN "pos" ELSE "neg"

SignAdd(a, b) ==
    IF a = "nan" \/ b = "nan" THEN "nan"
    ELSE IF a = "zero" THEN b
    ELSE IF b = "zero" THEN a
    ELSE IF a = b THEN a ELSE "unk"

SignMax(a, b) ==
    IF a = "nan" \/ b = "nan" THEN a
    ELSE IF a = "pos" \/ b = "pos" THEN "pos"
    ELSE IF a = "unk" \/ b = "unk" THEN "unk"
    ELSE IF a = "neg" /\ b = "neg" THEN "neg" ELSE "zero"

(* The signs of p_local and 1 - p_local for a short rate: p < 0 ("below"), *)
(* p = 0, 0 < p < 1, p = 1, p > 1 ("above") or NaN, decided as in          *)
(* ProbabilityClass.                                                       *)
LocalProbability(rate, q, sigma, dt) ==
    IF ~IsFin(dt)
    THEN (IF dt.k = "pinf" /\ Lt(rate, q) THEN <<"zero", "pos">>
          ELSE <<"nan", "nan">>)
    ELSE IF Le(dt, Zero) THEN <<"nan", "nan">>
    ELSE LET x == Sub(rate, q)
             ratio == Div(x, sigma)
             sq == Mul(ratio, ratio)
             bound == Div(One, dt)
         IN  IF Gt(sq, bound)
             THEN (IF Lt(x, Zero) THEN <<"neg", "pos">> ELSE <<"pos", "neg">>)
             ELSE IF sq = bound
             THEN (IF Lt(x, Zero) THEN <<"zero", "pos">> ELSE <<"pos", "zero">>)
             ELSE <<"pos", "pos">>

(* The sign of max(S_j - K, 0) (call) or max(K - S_j, 0) (put) at the node *)
(* S_j = S u^j d^(i-j) of level i: u > 1 when dt > 0, u = 1 when dt = 0,   *)
(* u is NaN when dt < 0 or dt is NaN, and pow(u, 0) = 1 for every u.       *)
NodePayoff(opt, dt, i, j) ==
    LET e == 2 * j - i
        growth == IF i = 0 THEN 0
                  ELSE IF ~IsFin(dt) \/ Lt(dt, Zero) THEN 2
                  ELSE IF dt = Zero THEN 0
                  ELSE IF e > 0 THEN 1 ELSE IF e < 0 THEN -1 ELSE 0
        S == opt.underlying
        K == opt.strike
        above == IF growth = 2 THEN "nan"
                 ELSE IF growth = 0
                 THEN (IF Gt(S, K) THEN "pos" ELSE "zero")
                 ELSE IF growth = 1
                 THEN (IF Ge(S, K) THEN "pos" ELSE "unk")
                 ELSE (IF Le(S, K) THEN "zero" ELSE "unk")
        below == IF growth = 2 THEN "nan"
                 ELSE IF growth = 0
                 THEN (IF Lt(S, K) THEN "pos" ELSE "zero")
                 ELSE IF growth = -1
                 THEN (IF Le(S, K) THEN "pos" ELSE "unk")
                 ELSE (IF Ge(S, K) THEN "zero" ELSE "unk")
    IN  IF opt.type = "Call" THEN above ELSE below

(* One level of the backward induction: prices[j] for j = 0..i from the    *)
(* level above, with the weights p_local and 1 - p_local of that level.    *)
BinomialLevel(opt, dt, i, w, prices) ==
    [k \in 1..(i + 1) |->
        LET continuation == SignAdd(SignMul(w[1], prices[k + 1]),
                                    SignMul(w[2], prices[k]))
        IN  IF opt.style = "American"
            THEN SignMax(continuation, NodePayoff(opt, dt, i, k - 1))
            ELSE continuation]

(* The levels i, i-1, .., 0 of the induction, last computed first; prices  *)
(* holds the levels computed so far, the terminal payoffs last.            *)
RECURSIVE BinomialInduction(_, _, _, _, _, _)
BinomialInduction(opt, config, dt, N, i, prices) ==
    IF i < 0 THEN prices
    ELSE LET r_local == getRate(config.yieldCurve, Fin(i, N)).value
             w == LocalProbability(r_local, opt.dividend, opt.volatility, dt)
         IN  BinomialInduction(opt, config, dt, N, i - 1,
                 <<BinomialLevel(opt, dt, i, w, Head(prices))>> \o prices)

(* The node values of the tree, root level first. *)
BinomialTree(opt, config) ==
    LET N == config.binomialSteps
        dt == Div(config.maturity, Fin(N, 1))
        terminal == [k \in 1..(N + 1) |-> NodePayoff(opt, dt, N, k - 1)]
    IN  BinomialInduction(opt, config, dt, N, N - 1, <<terminal>>)

BinomialPrice(opt, config, clock) ==
    LET N == config.binomialSteps
        dt == Div(config.maturity, Fin(N, 1))
        p == ProbabilityClass(config.riskFreeRate, opt.dividend,
                              opt.volatility, dt)
        qs == BinomialRates(config)
    IN  IF BinomialUnstable(p) THEN Fail("UnstableTree", FALSE)
        ELSE IF \E k \in 1..N : qs[k].kind = "error"
             THEN Fail("EmptyCurve", TRUE)
        ELSE [Value(config.maturity, dt, [k \in 1..N |-> qs[k].value])
                EXCEPT !.price =
                    Double(BinomialTree(opt, config)[1][1], NoGross, NaN)]

----------------------------------------------------------------------------
(* CrankNicolsonPricer.                                                    *)

(* The elapsed fraction n dt / T_effective instead of the remaining one. *)
CrankQueriesElapsed(config, Teff, dt) ==
    LET N == config.crankTimeSteps
    IN  [k \in 1..N |-> Div(Mul(Fin(N - k, 1), dt), Teff)]

(* normTime = (T_effective - n dt) / T_effective, n = N-1 down to 0 *)
CrankQueries(config, Teff, dt) ==
    LET N == config.crankTimeSteps
    IN  [k \in 1..N |-> Div(Sub(Teff, Mul(Fin(N - k, 1), dt)), Teff)]

CrankNicolsonPrice(opt, config, clock) ==
    LET te == EffectiveMaturity(config, clock)
        N == config.crankTimeSteps
        dt == Div(te.T, Fin(N, 1))
    IN  IF ~te.ok THEN Fail("ParseError", FALSE)
        ELSE Value(te.T, dt, [k \in 1..N |->
                 LocalRate(config, CrankQueries(config, te.T, dt)[k])])

----------------------------------------------------------------------------
(* MonteCarloPricer. The rates are those of one path: the forward          *)
(* simulation, j = 0..NSteps-1, followed for an American option by the     *)
(* final discounting k = 0..NSteps-1 of a path held to maturity.           *)
(* The normal draws of mt19937(42) are not modelled. A European price is   *)
(* the mean terminal payoff times the discount factor of the forward       *)
(* rates; with at most one time step the Longstaff-Schwartz loop does not  *)
(* run and an American price is the same mean payoff times the discount    *)
(* factor of the final discounting. Of the draws it is assumed only that,  *)
(* when dt > 0, at least one of the simulated paths ends in the money.     *)

RECURSIVE SumSeq(_)
SumSeq(q) == IF q = <<>> THEN Zero ELSE Add(Head(q), SumSeq(Tail(q)))

(* normTime = j dt / T_effective of the simulation of one path,            *)
(* j = 0..NSteps-1, for European and American options                      *)
MonteCarloForwardQueries(config, Teff, dt) ==
    [j \in 1..config.mcTimeStepsPerPath |->
        Div(Mul(Fin(j - 1, 1), dt), Teff)]

(* normTime_k = (T_effective - k dt) / T_effective of the final            *)
(* discounting of a path exercised at maturity, k = 0..NSteps-1            *)
MonteCarloDiscountQueries(config, Teff, dt) ==
    [k \in 1..config.mcTimeStepsPerPath |->
        Div(Sub(Teff, Mul(Fin(k - 1, 1), dt)), Teff)]

(* normTime_k of the regression at time index t for a path in the money    *)
(* that is still held: k = t..NSteps-1                                     *)
MonteCarloBackwardQueries(config, Teff, dt, t) ==
    [i \in 1..(config.mcTimeStepsPerPath - t) |->
        Div(Sub(Teff, Mul(Fin(t + i - 1, 1), dt)), Teff)]

MonteCarloDiscountRates(config, Teff, dt) ==
    [k \in 1..config.mcTimeStepsPerPath |->
        LocalRate(config, MonteCarloDiscountQueries(config, Teff, dt)[k])]

MonteCarloDouble(opt, config, dt, forward, discount) ==
    LET NSteps == config.mcTimeStepsPerPath
        terminal == opt.style = "European" \/ NSteps <= 1
        gross == [style |-> IF terminal THEN "terminal" ELSE "lsm",
                  type |-> opt.type, S |-> opt.underlying, K |-> opt.strike,
                  sigma |-> opt.volatility, q |-> opt.dividend,
                  rates |-> forward, dt |-> dt,
                  paths |-> config.mcNumPaths, steps |-> NSteps]
        used == IF opt.style = "European" THEN forward ELSE discount
        logDisc == IF terminal THEN Neg(Mul(SumSeq(used), dt)) ELSE NaN
        sign == IF NSteps <= 0 THEN NodePayoff(opt, dt, 0, 0)
                ELSE IF ~IsFin(dt) \/ Lt(dt, Zero) THEN "nan"
                ELSE IF dt = Zero THEN NodePayoff(opt, dt, 0, 0)
                ELSE "pos"
    IN  Double(sign, gross, logDisc)

MonteCarloPrice(opt, config, clock) ==
    LET T == config.maturity
        NPaths == config.mcNumPaths
        NSteps == config.mcTimeStepsPerPath
        dated == config.calculationDate.k # "empty"
        calcDate == parseDate(config.calculationDate)
        offset == yearsBetween(calcDate.time, clock)
        Teff == IF dated THEN Sub(T, offset) ELSE T
        dt == Div(Teff, Fin(NSteps, 1))
        forward == [j \in 1..NSteps |->
                      LocalRate(config,
                          MonteCarloForwardQueries(config, Teff, dt)[j])]
        discount == MonteCarloDiscountRates(config, Teff, dt)
        price == MonteCarloDouble(opt, config, dt, forward, discount)
    IN  IF dated /\ ~calcDate.ok THEN Fail("ParseError", FALSE)
        ELSE IF dated /\ Ge(offset, T) THEN Fail("NegativeMaturity", FALSE)
        ELSE IF NPaths <= 0 THEN Value(Teff, dt, <<>>)
        ELSE IF opt.style = "European"
             THEN [Value(Teff, dt, forward) EXCEPT !.price = price]
        ELSE [Value(Teff, dt, forward \o discount) EXCEPT !.price = price]

----------------------------------------------------------------------------
(* price of the engine held by a pricer, and the bump-and-reprice Greeks   *)
(* of the Binomial, CrankNicolson and MonteCarlo engines.                  *)

RECURSIVE Concat(_)
Concat(seqs) == IF seqs = <<>> THEN <<>> ELSE Head(seqs) \o Concat(Tail(seqs))

Phase(name, us) == [i \in 1..Len(us) |-> [phase |-> name, u |-> us[i]]]

(* The normalized times at which price took a local rate, in the order of  *)
(* the calls, given what the call returned: the Binomial engine stops at   *)
(* its first getRate when the curve is empty; no loop of the Monte Carlo   *)
(* engine runs without a path; the regressions, t = NSteps-1 down to 1,    *)
(* discount the paths in the money, here one path at every t.              *)
EngineQueries(type, opt, config, out) ==
    CASE type = "BlackScholes" -> <<>>
      [] type = "Binomial" ->
            IF out.kind = "value"
            THEN Phase("induction", BinomialQueries(config))
            ELSE IF out.err = "EmptyCurve"
            THEN Phase("induction", SubSeq(BinomialQueries(config), 1, 1))
            ELSE <<>>
      [] type = "CrankNicolson" ->
            IF out.kind = "value"
            THEN Phase("induction", CrankQueries(config, out.Teff, out.dt))
            ELSE <<>>
      [] type = "MonteCarlo" ->
            LET NSteps == config.mcTimeStepsPerPath
                forward == Phase("forward",
                    MonteCarloForwardQueries(config, out.Teff, out.dt))
                backward == Concat([i \in 1..(NSteps - 1) |->
                    Phase("backward", MonteCarloBackwardQueries(config,
                        out.Teff, out.dt, NSteps - i))])
                discount == Phase("discount",
                    MonteCarloDiscountQueries(config, out.Teff, out.dt))
            IN  IF out.kind # "value" \/ config.mcNumPaths <= 0 THEN <<>>
                ELSE IF opt.style = "European" THEN forward
                ELSE forward \o backward \o discount

EnginePrice(type, opt, config, clock) ==
    CASE type = "BlackScholes" -> BlackScholesPrice(opt, config, clock)
      [] type = "Binomial" -> BinomialPrice(opt, config, clock)
      [] type = "CrankNicolson" -> CrankNicolsonPrice(opt, config, clock)
      [] type = "MonteCarlo" -> MonteCarloPrice(opt, config, clock)

volStep == Fin(1, 100)
rStep == Fin(1, 1000)
timeStep == Fin(1, 365)

ShiftCurve(curve, step) ==
    [i \in 1..Len(curve) |->
        RatePoint(curve[i].maturity, Add(curve[i].rate, step))]

RateBumpedBoth(config, step) ==
    [config EXCEPT !.yieldCurve = ShiftCurve(config.yieldCurve, step),
                   !.riskFreeRate = Add(config.riskFreeRate, step)]

(* config_r_up / config_r_down *)
RateBumped(config, step) ==
    IF config.yieldCurve # <<>>
    THEN [config EXCEPT !.yieldCurve = ShiftCurve(config.yieldCurve, step)]
    ELSE [config EXCEPT !.riskFreeRate = Add(config.riskFreeRate, step)]

Call(opt, config) == [opt |-> opt, config |-> config]

GreeksCallsInPlace(opt, config) ==
    LET h == Mul(Fin(1, 100), opt.underlying)
        up == [opt EXCEPT !.underlying = Add(opt.underlying, h)]
        down == [up EXCEPT !.underlying = Sub(up.underlying, h)]
        vup == [down EXCEPT !.volatility = Add(down.volatility, volStep)]
        vdown == [vup EXCEPT !.volatility = Sub(vup.volatility, volStep)]
        short == [config EXCEPT !.maturity = Sub(config.maturity, timeStep)]
    IN  << Call(opt, config), Call(up, config), Call(down, config),
           Call(vup, config), Call(vdown, config), Call(vdown, short),
           Call(vdown, RateBumped(short, rStep)),
           Call(vdown, RateBumped(short, Neg(rStep))) >>

(* The eight prices of one computeGreeks call, base price first. *)
GreeksCalls(opt, config) ==
    LET h == Mul(Fin(1, 100), opt.underlying)
    IN  << Call(opt, config),
           Call([opt EXCEPT !.underlying = Add(opt.underlying, h)], config),
           Call([opt EXCEPT !.underlying = Sub(opt.underlying, h)], config),
           Call([opt EXCEPT !.volatility = Add(opt.volatility, volStep)], config),
           Call([opt EXCEPT !.volatility = Sub(opt.volatility, volStep)], config),
           Call(opt, [config EXCEPT !.maturity = Sub(config.maturity, timeStep)]),
           Call(opt, RateBumped(config, rStep)),
           Call(opt, RateBumped(config, Neg(rStep))) >>

(* rho = (price_r_up - price_r_down) / (2 * rStep): the two prices it    *)
(* divides and the divisor.                                                *)
Rho == [up |-> 7, down |-> 8, by |-> Mul(Fin(2, 1), rStep)]

(* A finite difference: the terms of its numerator, each a coefficient c   *)
(* and the index i of one of the eight prices of GreeksCalls, and the      *)
(* divisor.                                                                *)
Term(c, i) == [c |-> c, i |-> i]
Difference(terms, by) == [terms |-> terms, by |-> by]

(* Every harness with the theta of CrankNicolson and MonteCarlo but the    *)
(* divisor of Binomial.                                                    *)
HarnessFormulasOneDivisor(type, opt) ==
    LET h == Mul(Fin(1, 100), opt.underlying)
    IN  [delta |-> Difference(<<Term(1, 2), Term(-1, 3)>>,
                              Mul(Fin(2, 1), h)),
         gamma |-> Difference(<<Term(1, 2), Term(-2, 1), Term(1, 3)>>,
                              Mul(h, h)),
         vega |-> Difference(<<Term(1, 4), Term(-1, 5)>>,
                             Mul(Fin(2, 1), volStep)),
         theta |-> Difference(<<Term(1, 6), Term(-1, 1)>>, timeStep),
         rho |-> Difference(<<Term(1, Rho.up), Term(-1, Rho.down)>>, Rho.by)]

(* delta, gamma, vega, theta and rho of computeGreeks: Binomial writes     *)
(* theta as (basePrice - price_T_down) / dt_small, CrankNicolson and       *)
(* MonteCarlo as (price_T_down - basePrice) / (-timeStep).                 *)
HarnessFormulas(type, opt) ==
    LET h == Mul(Fin(1, 100), opt.underlying)
    IN  [delta |-> Difference(<<Term(1, 2), Term(-1, 3)>>,
                              Mul(Fin(2, 1), h)),
         gamma |-> Difference(<<Term(1, 2), Term(-2, 1), Term(1, 3)>>,
                              Mul(h, h)),
         vega |-> Difference(<<Term(1, 4), Term(-1, 5)>>,
                             Mul(Fin(2, 1), volStep)),
         theta |-> IF type = "Binomial"
                   THEN Difference(<<Term(1, 1), Term(-1, 6)>>, timeStep)
                   ELSE Difference(<<Term(1, 6), Term(-1, 1)>>,
                                   Neg(timeStep)),
         rho |-> Difference(<<Term(1, Rho.up), Term(-1, Rho.down)>>, Rho.by)]

(* BinomialPricer::computeGreeks prices the two spot bumps before the base. *)
CallOrder(type) ==
    IF type = "Binomial" THEN <<2, 3, 1, 4, 5, 6, 7, 8>>
    ELSE <<1, 2, 3, 4, 5, 6, 7, 8>>

RECURSIVE FirstError(_, _)
FirstError(outs, i) ==
    IF i > Len(outs) THEN 0
    ELSE IF outs[i].kind = "error" THEN i
    ELSE FirstError(outs, i + 1)

HarnessGreeks(type, opt, config, clock) ==
    LET calls == GreeksCalls(opt, config)
        order == CallOrder(type)
        outs == [i \in 1..Len(order) |->
                    EnginePrice(type, calls[order[i]].opt,
                                calls[order[i]].config, clock)]
        bad == FirstError(outs, 1)
        base == EnginePrice(type, opt, config, clock)
    IN  IF bad # 0
        THEN [outs[bad] EXCEPT !.priced = bad]
        ELSE [base EXCEPT !.priced = Len(order)]

EngineGreeks(type, opt, config, clock) ==
    IF type = "BlackScholes" THEN BlackScholesGreeks(opt, config, clock)
    ELSE HarnessGreeks(type, opt, config, clock)

----------------------------------------------------------------------------
(* The curve file and YieldCurve::loadFromFile. A line is empty (no        *)
(* character), holds only whitespace, holds two reals, holds two reals     *)
(* followed by more text, or does not start with two reals.                *)

Blank == [k |-> "blank", maturity |-> Zero, rate |-> Zero]
Whitespace == [k |-> "space", maturity |-> Zero, rate |-> Zero]
Malformed == [k |-> "bad", maturity |-> Zero, rate |-> Zero]
PointLine(m, r) == [k |-> "point", maturity |-> m, rate |-> r]
TrailingLine(m, r) == [k |-> "trailing", maturity |-> m, rate |-> r]

(* line.empty() *)
LineEmpty(line) == line.k = "blank"

(* iss >> maturity >> rate: leading whitespace is skipped, text after the  *)
(* second real is not read.                                                *)
LineParses(line) == line.k \in {"point", "trailing"}

(* A loader that stops at the first empty line. *)
RECURSIVE LoadLinesStopAtEmpty(_, _, _)
LoadLinesStopAtEmpty(data, lines, i) ==
    IF i > Len(lines) \/ LineEmpty(lines[i])
    THEN [ok |-> TRUE, err |-> "", line |-> 0, data |-> data]
    ELSE IF ~LineParses(lines[i])
         THEN [ok |-> FALSE, err |-> "FormatError", line |-> i, data |-> data]
    ELSE LoadLinesStopAtEmpty(
             Append(data, RatePoint(lines[i].maturity, lines[i].rate)),
             lines, i + 1)

(* A loader that empties the curve when a line does not parse. *)
RECURSIVE LoadLinesClearOnError(_, _, _)
LoadLinesClearOnError(data, lines, i) ==
    IF i > Len(lines) THEN [ok |-> TRUE, err |-> "", line |-> 0, data |-> data]
    ELSE IF LineEmpty(lines[i]) THEN LoadLinesClearOnError(data, lines, i + 1)
    ELSE IF ~LineParses(lines[i])
         THEN [ok |-> FALSE, err |-> "FormatError", line |-> i, data |-> <<>>]
    ELSE LoadLinesClearOnError(
             Append(data, RatePoint(lines[i].maturity, lines[i].rate)),
             lines, i + 1)

(* The getline loop; line is the index of the line the error message holds. *)
RECURSIVE LoadLines(_, _, _)
LoadLines(data, lines, i) ==
    IF i > Len(lines) THEN [ok |-> TRUE, err |-> "", line |-> 0, data |-> data]
    ELSE IF LineEmpty(lines[i]) THEN LoadLines(data, lines, i + 1)
    ELSE IF ~LineParses(lines[i])
         THEN [ok |-> FALSE, err |-> "FormatError", line |-> i, data |-> data]
    ELSE LoadLines(Append(data, RatePoint(lines[i].maturity, lines[i].rate)),
                   lines, i + 1)

loadFromFile(data, f) ==
    IF ~f.exists THEN [ok |-> FALSE, err |-> "IOError", line |-> 0, data |-> data]
    ELSE LoadLines(data, f.lines, 1)

MaxLines == 2

LoadLineKinds ==
    {Blank, Whitespace, Malformed, PointLine(Fin(1, 2), Fin(5, 100)),
     PointLine(Zero, Fin(1, 100)), TrailingLine(One, Fin(5, 100))}
LoadFiles ==
    {NoFile} \cup
    { [exists |-> TRUE, lines |-> l] :
        l \in UNION { [1..n -> LoadLineKinds] : n \in 0..MaxLines } }

(* YieldCurve::loadFromFile; the points of the lines before a failing line *)
(* stay in the curve.                                                      *)
LoadFromFile ==
    /\ Len(data_) < MaxPoints
    /\ \E out \in {loadFromFile(data_, file)} :
          /\ data_' = out.data
          /\ ret' = [op |-> "loadFromFile", before |-> data_, out |-> out]
    /\ UNCHANGED <<now, file, pricer>>

InitLoad ==
    /\ data_ = <<>>
    /\ now = 0
    /\ file \in LoadFiles
    /\ pricer = [type |-> "none"]
    /\ ret = Idle

NextLoad == AddRatePoint \/ LoadFromFile

SpecLoad == InitLoad /\ [][NextLoad]_vars

----------------------------------------------------------------------------
(* The exported entry points. Each builds a config from its arguments      *)
(* (today's date when calculationDate is null or empty), loads the curve   *)
(* file (all but Black-Scholes), prices, and maps any exception to -1.0    *)
(* (price) or to NaN in every non-null out-parameter (Greeks).             *)

NullDate == [k |-> "null", day |-> 0]

HostDate(args, clock) ==
    IF args.calculationDate.k \in {"null", "empty"}
    THEN getTodayDate(clock)
    ELSE args.calculationDate

HostOption(args) ==
    Option(args.S, args.K, args.sigma, args.q,
           IF args.optionType = 0 THEN "Call" ELSE "Put",
           IF args.optionStyle = 0 THEN "European" ELSE "American")

HostConfig(entry, args, clock, curve) ==
    LET base == [PricingConfiguration EXCEPT
                    !.calculationDate = HostDate(args, clock),
                    !.maturity = args.T,
                    !.riskFreeRate = args.r,
                    !.yieldCurve = curve]
    IN  CASE entry = "BlackScholes" -> base
          [] entry = "Binomial" -> [base EXCEPT !.binomialSteps = args.steps]
          [] entry = "CrankNicolson" ->
                [base EXCEPT !.crankTimeSteps = args.steps,
                             !.crankSpotSteps = args.spotSteps,
                             !.S_max = args.S_max]
          [] entry = "MonteCarlo" ->
                [base EXCEPT !.mcNumPaths = args.paths,
                             !.mcTimeStepsPerPath = args.steps]

(* The try block of an entry point: the curve is loaded, the style        *)
(* checked, the engine called.                                             *)
HostLoad(entry, f) ==
    IF entry = "BlackScholes"
    THEN [ok |-> TRUE, err |-> "", line |-> 0, data |-> <<>>]
    ELSE loadFromFile(<<>>, f)

(* What ends the try block before the engine is called, if anything. *)
HostTry(entry, opt, loaded) ==
    IF ~loaded.ok THEN Fail(loaded.err, FALSE)
    ELSE IF entry = "BlackScholes" /\ opt.style # "European"
         THEN Fail("UnsupportedStyle", FALSE)
    ELSE [kind |-> "none"]

(* The double an entry point returns: the sentinel -1.0 or the price. *)
HostPriceResult(out) ==
    IF out.kind = "error" THEN "sentinel" ELSE "price"

GreekNames == {"delta", "gamma", "vega", "theta", "rho"}

(* The catch block without its null guards: NaN through every pointer. *)
HostGreeksCellsUnguarded(out, nulls) ==
    [g \in GreekNames |->
        IF out.kind = "error" THEN "nan"
        ELSE IF g \in nulls THEN "null" ELSE "greek"]

(* What each out-parameter holds after a Greeks entry point returns. *)
HostGreeksCells(out, nulls) ==
    [g \in GreekNames |->
        IF g \in nulls THEN "null"
        ELSE IF out.kind = "error" THEN "nan" ELSE "greek"]

(* How many times each out-parameter is assigned: the guarded writes that  *)
(* end the try block run when nothing was thrown, those of the catch block *)
(* when something was.                                                     *)
HostGreeksWrites(out, nulls) ==
    [g \in GreekNames |->
        LET inTry == IF out.kind # "error" /\ g \notin nulls THEN 1 ELSE 0
            inCatch == IF out.kind = "error" /\ g \notin nulls THEN 1 ELSE 0
        IN  inTry + inCatch]

----------------------------------------------------------------------------
(* Bounds and input domains of the engine and host specifications.         *)

MaxNow == 4
MaxSteps == 2

EngineTypes == {"BlackScholes", "Binomial", "CrankNicolson", "MonteCarlo"}
Dates == {EmptyDate, BadDate, Day(0), Day(1)}
MaturityValues == {Zero, Fin(1, 8766), One}
RiskFreeRates == {Fin(1, 100), Fin(1, 2)}
Curves == { <<>>,
            <<RatePoint(Fin(1, 2), Fin(5, 100))>>,
            <<RatePoint(Zero, Fin(1, 100)), RatePoint(One, Fin(5, 100))>> }
StepCounts == 0..MaxSteps
Options ==
    { Option(Fin(100, 1), Fin(100, 1), Fin(1, 5), q, type, style) :
        q \in {Zero, Fin(1, 2)}, type \in {"Call", "Put"},
        style \in {"European", "American"} }

Lines == {Blank, Malformed, PointLine(Fin(1, 2), Fin(5, 100))}
Files ==
    {NoFile} \cup
    { [exists |-> TRUE, lines |-> l] :
        l \in UNION { [1..n -> Lines] : n \in 0..MaxLines } }

HostDates == {NullDate, EmptyDate, BadDate, Day(0)}
HostArgs ==
    { [S |-> Fin(100, 1), K |-> Fin(100, 1), T |-> T, r |-> r,
       sigma |-> Fin(1, 5), q |-> Zero, optionType |-> 0,
       optionStyle |-> style, calculationDate |-> date, steps |-> n,
       spotSteps |-> DefaultCrankSpotSteps, S_max |-> Zero,
       paths |-> DefaultMcNumPaths] :
        T \in {Fin(1, 8766), One}, r \in RiskFreeRates, style \in {0, 1},
        date \in HostDates, n \in StepCounts }
NullSets == { {}, {"vega", "rho"}, GreekNames }

----------------------------------------------------------------------------
(* The engine specification: a pricer is created with a config, then       *)
(* priced with; the caller takes each result before the next call.         *)

(* PricerFactory::createPricer(type, config) *)
CreatePricer ==
    /\ pricer.type = "none"
    /\ \E type \in EngineTypes, date \in Dates, T \in MaturityValues,
          r \in RiskFreeRates, curve \in Curves, n \in StepCounts :
          pricer' = [type |-> type,
                     config |-> [PricingConfiguration EXCEPT
                                   !.calculationDate = date,
                                   !.maturity = T,
                                   !.riskFreeRate = r,
                                   !.yieldCurve = curve,
                                   !.binomialSteps = n,
                                   !.crankTimeSteps = n,
                                   !.mcTimeStepsPerPath = n]]
    /\ UNCHANGED <<data_, now, file, ret>>

(* IOptionPricer::price *)
Price ==
    /\ pricer.type # "none"
    /\ ret = Idle
    /\ \E opt \in Options :
          \E out \in {EnginePrice(pricer.type, opt, pricer.config, now)} :
              ret' = [op |-> "price", opt |-> opt, at |-> now, out |-> out,
                      queries |-> EngineQueries(pricer.type, opt,
                                                pricer.config, out)]
    /\ UNCHANGED <<data_, now, file, pricer>>

(* IOptionPricer::computeGreeks *)
ComputeGreeks ==
    /\ pricer.type # "none"
    /\ ret = Idle
    /\ \E opt \in Options :
          \E out \in {EngineGreeks(pricer.type, opt, pricer.config, now)} :
              ret' = [op |-> "computeGreeks", opt |-> opt, at |-> now,
                      out |-> out]
    /\ UNCHANGED <<data_, now, file, pricer>>

(* The caller takes the result of the call. *)
TakeResult ==
    /\ ret # Idle
    /\ ret' = Idle
    /\ UNCHANGED <<data_, now, file, pricer>>

(* The system clock advances. *)
Tick ==
    /\ ret = Idle
    /\ now < MaxNow
    /\ now' = now + 1
    /\ UNCHANGED <<data_, file, pricer, ret>>

InitEngine ==
    /\ data_ = <<>>
    /\ now = 0
    /\ file = NoFile
    /\ pricer = [type |-> "none"]
    /\ ret = Idle

NextEngine == CreatePricer \/ Price \/ ComputeGreeks \/ TakeResult \/ Tick

SpecEngine == InitEngine /\ [][NextEngine]_vars

----------------------------------------------------------------------------
(* The host specification: the curve file is whatever the host's disk      *)
(* holds; each entry point is called with arguments of the host's choice.  *)

(* PriceOption, PriceOptionBinomial, PriceOptionCrankNicolson,             *)
(* PriceOptionMonteCarlo                                                   *)
HostPrice ==
    /\ ret = Idle
    /\ \E entry \in EngineTypes, args \in HostArgs :
          \E loaded \in {HostLoad(entry, file)}, opt \in {HostOption(args)} :
             \E config \in {HostConfig(entry, args, now, loaded.data)} :
                \E out \in {IF HostTry(entry, opt, loaded).kind = "error"
                            THEN HostTry(entry, opt, loaded)
                            ELSE EnginePrice(entry, opt, config, now)} :
                   ret' = [op |-> "hostPrice", entry |-> entry,
                           args |-> args, at |-> now, out |-> out,
                           result |-> HostPriceResult(out)]
    /\ UNCHANGED <<data_, now, file, pricer>>

(* ComputeOptionGreeks, ComputeOptionGreeksBinomial,                       *)
(* ComputeOptionGreeksCrankNicolson, ComputeOptionGreeksMonteCarlo         *)
HostGreeks ==
    /\ ret = Idle
    /\ \E entry \in EngineTypes, args \in HostArgs, nulls \in NullSets :
          \E loaded \in {HostLoad(entry, file)}, opt \in {HostOption(args)} :
             \E config \in {HostConfig(entry, args, now, loaded.data)} :
                \E out \in {IF HostTry(entry, opt, loaded).kind = "error"
                            THEN HostTry(entry, opt, loaded)
                            ELSE EngineGreeks(entry, opt, config, now)} :
                   ret' = [op |-> "hostGreeks", entry |-> entry,
                           args |-> args, at |-> now, out |-> out,
                           nulls |-> nulls,
                           cells |-> HostGreeksCells(out, nulls),
                           writes |-> HostGreeksWrites(out, nulls)]
    /\ UNCHANGED <<data_, now, file, pricer>>

InitHost ==
    /\ data_ = <<>>
    /\ now = 0
    /\ file \in Files
    /\ pricer = [type |-> "none"]
    /\ ret = Idle

NextHost == HostPrice \/ HostGreeks \/ TakeResult \/ Tick

SpecHost == InitHost /\ [][NextHost]_vars

----------------------------------------------------------------------------
(* Yield-curve claims.                                                     *)

NonDecreasing(data) ==
    \A i \in 1..(Len(data) - 1) : Le(data[i].maturity, data[i + 1].maturity)

StrictlyIncreasing(data) ==
    \A i \in 1..(Len(data) - 1) : Lt(data[i].maturity, data[i + 1].maturity)

(* The stored rate of sample k is the only rate stored at its maturity. *)
SoleRateAt(data, k) ==
    \A j \in 1..Len(data) :
        data[j].maturity = data[k].maturity => data[j].rate = data[k].rate

(* C1 as stated: on a curve with non-decreasing maturities, duplicates    *)
(* included, getRate at the maturity of any stored sample returns that     *)
(* sample's rate.                                                          *)
C1_Original ==
    (ret.op = "getRate" /\ data_ # <<>> /\ NonDecreasing(data_)) =>
        \A k \in 1..Len(data_) :
            data_[k].maturity = ret.t => ret.out = Ok(data_[k].rate)

(* C1 amended: on a curve with non-decreasing maturities, getRate at the  *)
(* maturity of a stored sample returns that sample's rate whenever no      *)
(* other stored sample holds a different rate at the same maturity.        *)
C1_SampleIdempotence ==
    (ret.op = "getRate" /\ data_ # <<>> /\ NonDecreasing(data_)) =>
        \A k \in 1..Len(data_) :
            (data_[k].maturity = ret.t /\ SoleRateAt(data_, k))
                => ret.out = Ok(data_[k].rate)

(* A three-point curve queried at its middle sample, which lies strictly  *)
(* between the end maturities and carries a rate unlike its neighbours'.   *)
C1_Witness ==
    /\ ret.op = "getRate"
    /\ Len(data_) = 3
    /\ StrictlyIncreasing(data_)
    /\ ret.t = data_[2].maturity
    /\ data_[2].rate # data_[1].rate
    /\ data_[2].rate # data_[3].rate
    /\ ret.out = Ok(data_[2].rate)

(* C2 as stated: a query at or below the first maturity returns the first *)
(* rate and a query at or above the last maturity returns the last rate.   *)
C2_Original ==
    (ret.op = "getRate" /\ data_ # <<>>) =>
        /\ Le(ret.t, data_[1].maturity) => ret.out = Ok(data_[1].rate)
        /\ Ge(ret.t, data_[Len(data_)].maturity)
              => ret.out = Ok(data_[Len(data_)].rate)

(* C2 amended: a query at or below the first maturity returns the first   *)
(* rate; any other query at or above the last maturity returns the last    *)
(* rate; neither case interpolates.                                        *)
C2_FlatExtrapolation ==
    (ret.op = "getRate" /\ data_ # <<>>) =>
        /\ Le(ret.t, data_[1].maturity) => ret.out = Ok(data_[1].rate)
        /\ (~Le(ret.t, data_[1].maturity) /\ Ge(ret.t, data_[Len(data_)].maturity))
              => ret.out = Ok(data_[Len(data_)].rate)

(* A query above both end maturities of a curve whose end rates differ.   *)
C2_Witness ==
    /\ ret.op = "getRate"
    /\ Len(data_) >= 2
    /\ Gt(ret.t, data_[1].maturity)
    /\ Gt(ret.t, data_[Len(data_)].maturity)
    /\ data_[1].rate # data_[Len(data_)].rate
    /\ ret.out = Ok(data_[Len(data_)].rate)

(* C3: getRate ends in the empty-curve error exactly on the empty curve;  *)
(* on any other curve it returns a finite rate for every query; and it     *)
(* leaves the stored points as they were.                                  *)
C3_GetRateTotal ==
    [][ret'.op = "getRate" =>
          /\ data_' = data_
          /\ (ret'.out.kind = "error") <=> (data_ = <<>>)
          /\ ret'.out.kind = "error" => ret'.out.err = "EmptyCurve"
          /\ data_ # <<>> => (ret'.out.kind = "value" /\ IsFin(ret'.out.value))]_vars

(* An interpolated query: strictly inside the curve, value returned.      *)
C3_Witness ==
    /\ ret.op = "getRate"
    /\ Len(data_) >= 2
    /\ Gt(ret.t, data_[1].maturity)
    /\ Lt(ret.t, data_[Len(data_)].maturity)
    /\ ret.out.kind = "value"
    /\ ret.out.value \notin {data_[i].rate : i \in 1..Len(data_)}

----------------------------------------------------------------------------
(* Two engine instances, each called from its own thread. A frame is the   *)
(* activation of one price or computeGreeks call: the price calls it makes *)
(* one after the other (k of n), the paths left to simulate in the current *)
(* one, the generator positions its paths started at (cur) and those of    *)
(* the price calls already made (log). ret.rng holds the position of every *)
(* generator: one in each frame, and the cell a generator of static        *)
(* storage duration would occupy. prev is the last result the caller of    *)
(* the thread took.                                                        *)

MaxPaths == 1
Threads == {"A", "B"}
Static == "static"

NoResult == [op |-> "none"]
IdleFrame(prev) == [pc |-> "idle", prev |-> prev]

(* std::mt19937 rng(42) is a local variable of MonteCarloPricer::price. *)
GeneratorStatic(t) == Static
GeneratorOf(t) == t

(* The generator is constructed, seeded with 42, by every price call. *)
SeededOnce(position) == position
Seeded(position) == 0

(* The number of paths a price call simulates; each takes NSteps draws. *)
MonteCarloPaths(type, opt, config, clock) ==
    IF /\ type = "MonteCarlo"
       /\ MonteCarloPrice(opt, config, clock).kind = "value"
       /\ config.mcNumPaths > 0
       /\ config.mcTimeStepsPerPath > 0
    THEN config.mcNumPaths
    ELSE 0

(* The price calls a call makes, in order. *)
FrameCalls(type, op, opt, config, out) ==
    IF op = "price" THEN <<Call(opt, config)>>
    ELSE IF type = "BlackScholes" THEN <<>>
    ELSE [i \in 1..out.priced |->
             GreeksCalls(opt, config)[CallOrder(type)[i]]]

ThreadEngines ==
    { [type |-> "MonteCarlo",
       config |-> [PricingConfiguration EXCEPT
                     !.yieldCurve = <<RatePoint(Zero, Fin(1, 100)),
                                      RatePoint(One, Fin(5, 100))>>,
                     !.mcNumPaths = MaxPaths,
                     !.mcTimeStepsPerPath = MaxSteps]],
      [type |-> "MonteCarlo",
       config |-> [PricingConfiguration EXCEPT
                     !.calculationDate = Day(0),
                     !.maturity = Fin(1, 8766),
                     !.mcNumPaths = MaxPaths,
                     !.mcTimeStepsPerPath = MaxSteps]],
      [type |-> "Binomial",
       config |-> [PricingConfiguration EXCEPT !.binomialSteps = MaxSteps]] }

ThreadOptions ==
    { Option(Fin(100, 1), Fin(100, 1), Fin(1, 5), Zero, "Call", "European"),
      Option(Fin(100, 1), Fin(100, 1), Fin(1, 5), Zero, "Put", "American") }

(* A thread calls price or computeGreeks on its engine. *)
Begin(t) ==
    /\ ret.frame[t].pc = "idle"
    /\ \E op \in {"price", "computeGreeks"}, opt \in ThreadOptions :
          \E out \in {IF op = "price"
                      THEN EnginePrice(pricer[t].type, opt, pricer[t].config,
                                       now)
                      ELSE EngineGreeks(pricer[t].type, opt,
                                        pricer[t].config, now)} :
             LET calls == FrameCalls(pricer[t].type, op, opt,
                                     pricer[t].config, out)
             IN  ret' = [ret EXCEPT !.frame[t] =
                            [pc |-> IF calls = <<>> THEN "done" ELSE "enter",
                             op |-> op, opt |-> opt, at |-> now, out |-> out,
                             calls |-> calls, k |-> 1, left |-> 0,
                             cur |-> <<>>, log |-> <<>>,
                             prev |-> ret.frame[t].prev]]
    /\ UNCHANGED <<data_, now, file, pricer>>

(* MonteCarloPricer::price reaches the declaration of its generator; the   *)
(* other engines have none.                                                *)
Enter(t) ==
    LET f == ret.frame[t]
        g == GeneratorOf(t)
        call == f.calls[f.k]
    IN  /\ f.pc = "enter"
        /\ ret' = [ret EXCEPT
                     !.rng[g] = IF pricer[t].type = "MonteCarlo"
                                THEN Seeded(@) ELSE @,
                     !.frame[t].pc = "draw",
                     !.frame[t].left =
                         MonteCarloPaths(pricer[t].type, call.opt,
                                         call.config, f.at)]
        /\ UNCHANGED <<data_, now, file, pricer>>

(* One path is simulated: NSteps draws from the generator. *)
Draw(t) ==
    LET f == ret.frame[t]
        g == GeneratorOf(t)
    IN  /\ f.pc = "draw"
        /\ f.left > 0
        /\ ret' = [ret EXCEPT
                     !.rng[g] = @ + f.calls[f.k].config.mcTimeStepsPerPath,
                     !.frame[t].left = @ - 1,
                     !.frame[t].cur = Append(@, ret.rng[g])]
        /\ UNCHANGED <<data_, now, file, pricer>>

(* The price call returns; the next one starts or the call returns. *)
Leave(t) ==
    LET f == ret.frame[t]
    IN  /\ f.pc = "draw"
        /\ f.left = 0
        /\ ret' = [ret EXCEPT
                     !.frame[t].log = Append(@, f.cur),
                     !.frame[t].cur = <<>>,
                     !.frame[t].k = IF f.k < Len(f.calls) THEN @ + 1 ELSE @,
                     !.frame[t].pc = IF f.k < Len(f.calls) THEN "enter"
                                     ELSE "done"]
        /\ UNCHANGED <<data_, now, file, pricer>>

(* The caller takes the result and keeps it. *)
Take(t) ==
    LET f == ret.frame[t]
    IN  /\ f.pc = "done"
        /\ ret' = [ret EXCEPT !.frame[t] =
                      IdleFrame([op |-> f.op, opt |-> f.opt, at |-> f.at,
                                 out |-> f.out, log |-> f.log])]
        /\ UNCHANGED <<data_, now, file, pricer>>

(* The caller takes the result and discards it. *)
Drop(t) ==
    /\ ret.frame[t].pc = "done"
    /\ ret' = [ret EXCEPT !.frame[t] = IdleFrame(NoResult)]
    /\ UNCHANGED <<data_, now, file, pricer>>

(* The system clock advances between calls. *)
TickCalls ==
    /\ \A t \in DOMAIN pricer : ret.frame[t].pc = "idle"
    /\ now < MaxNow
    /\ now' = now + 1
    /\ UNCHANGED <<data_, file, pricer, ret>>

InitCalls(threads) ==
    /\ data_ = <<>>
    /\ now = 0
    /\ file = NoFile
    /\ pricer \in [threads -> ThreadEngines]
    /\ ret = [op |-> "calls",
              frame |-> [t \in threads |-> IdleFrame(NoResult)],
              rng |-> [g \in threads \cup {Static} |-> 0]]

(* One engine called again and again, at different times. *)
InitRepeat == InitCalls({"A"})

NextRepeat ==
    \/ Begin("A") \/ Enter("A") \/ Draw("A") \/ Leave("A") \/ Take("A")
    \/ TickCalls

SpecRepeat == InitRepeat /\ [][NextRepeat]_vars

(* Two engines called concurrently. *)
InitThreads == InitCalls(Threads)

NextThreads ==
    \/ \E t \in Threads : Begin(t)
    \/ \E t \in Threads : Enter(t)
    \/ \E t \in Threads : Draw(t)
    \/ \E t \in Threads : Leave(t)
    \/ \E t \in Threads : Drop(t)

SpecThreads == InitThreads /\ [][NextThreads]_vars

----------------------------------------------------------------------------
(* The time stepping of CrankNicolsonPricer::price on exact values. A      *)
(* slice is the sequence of the values at the nodes 0..M (node j at index  *)
(* j + 1). std::exp is not evaluated: Exp gives values it may return for   *)
(* an argument of that sign.                                               *)

Max(a, b) == IF Lt(a, b) THEN b ELSE a

Exp(x) ==
    IF x = Zero THEN {One}
    ELSE IF Lt(x, Zero) THEN {Fin(1, 2), Fin(3, 4)}
    ELSE {Fin(2, 1)}

Intrinsic(opt, Sj) ==
    IF opt.type = "Call" THEN Max(Sub(Sj, opt.strike), Zero)
    ELSE Max(Sub(opt.strike, Sj), Zero)

Smax(opt, config) ==
    IF Gt(config.S_max, Zero) THEN config.S_max
    ELSE Max(Mul(Fin(3, 1), opt.strike), Mul(Fin(3, 1), opt.underlying))

(* A, B, C and E_coef of node j *)
CrankCoefficients(opt, r_local, dt, dS, j) ==
    LET S_j == Mul(Fin(j, 1), dS)
        half == Mul(Fin(1, 2), dt)
        sigma == opt.volatility
        diffusion == Div(Mul(Mul(sigma, sigma), Mul(S_j, S_j)), Mul(dS, dS))
        drift == Div(Mul(Sub(r_local, opt.dividend), S_j),
                     Mul(Fin(2, 1), dS))
    IN  [A |-> Mul(half, Sub(Mul(Fin(1, 2), diffusion), drift)),
         B |-> Add(One, Mul(half, Add(diffusion, r_local))),
         C |-> Mul(half, Add(Mul(Fin(1, 2), diffusion), drift)),
         E_coef |-> Sub(One, Mul(half, Add(diffusion, r_local)))]

(* The tridiagonal system of the rows j = 1..M-1, its right-hand side      *)
(* adjusted for the boundary values newV[0] and newV[M].                   *)
CrankSystem(opt, V, lo, hi, r_local, dt, dS, M) ==
    LET co(j) == CrankCoefficients(opt, r_local, dt, dS, j)
        a == [j \in 1..(M - 1) |-> Neg(co(j).A)]
        c == [j \in 1..(M - 1) |-> Neg(co(j).C)]
        rhs(j) == Add(Add(Mul(co(j).A, V[j]), Mul(co(j).E_coef, V[j + 1])),
                      Mul(co(j).C, V[j + 2]))
        first(j) == IF j = 1 THEN Sub(rhs(j), Mul(Neg(a[1]), lo)) ELSE rhs(j)
        last(j) == IF j = M - 1 THEN Sub(first(j), Mul(Neg(c[M - 1]), hi))
                   ELSE first(j)
    IN  [a |-> a, b |-> [j \in 1..(M - 1) |-> co(j).B], c |-> c,
         d_vec |-> [j \in 1..(M - 1) |-> last(j)]]

(* Thomas algorithm: forward sweep (c_prime, d_prime), back substitution. *)
RECURSIVE ThomasSweep(_, _, _)
ThomasSweep(sys, j, primes) ==
    IF j > Len(sys.b) THEN primes
    ELSE LET m == IF j = 1 THEN sys.b[1]
                  ELSE Sub(sys.b[j], Mul(sys.a[j], primes[j - 1].c_prime))
             d == IF j = 1 THEN sys.d_vec[1]
                  ELSE Sub(sys.d_vec[j],
                           Mul(sys.a[j], primes[j - 1].d_prime))
         IN  ThomasSweep(sys, j + 1,
                         Append(primes, [c_prime |-> Div(sys.c[j], m),
                                         d_prime |-> Div(d, m)]))

RECURSIVE BackSubstitute(_, _)
BackSubstitute(primes, j) ==
    IF j = Len(primes) THEN primes[j].d_prime
    ELSE Sub(primes[j].d_prime,
             Mul(primes[j].c_prime, BackSubstitute(primes, j + 1)))

(* newV of the step at time index n, e being the value of the boundary's   *)
(* std::exp.                                                               *)
CrankSlice(opt, config, V, r_local, e) ==
    LET M == config.crankSpotSteps
        dS == Div(Smax(opt, config), Fin(M, 1))
        dt == Div(config.maturity, Fin(config.crankTimeSteps, 1))
        lo == IF opt.type = "Call" THEN Zero ELSE Mul(opt.strike, e)
        hi == IF opt.type = "Call"
              THEN Sub(Smax(opt, config), Mul(opt.strike, e))
              ELSE Zero
        primes == ThomasSweep(CrankSystem(opt, V, lo, hi, r_local, dt, dS, M),
                              1, <<>>)
    IN  [j \in 1..(M + 1) |->
            IF j = 1 THEN lo
            ELSE IF j = M + 1 THEN hi
            ELSE BackSubstitute(primes, j - 1)]

(* A projection over the interior nodes 1..M-1 only. *)
ProjectionInterior(opt, config, V) ==
    LET dS == Div(Smax(opt, config), Fin(config.crankSpotSteps, 1))
    IN  IF opt.style = "American"
        THEN [j \in 1..Len(V) |->
                 IF j = 1 \/ j = Len(V) THEN V[j]
                 ELSE Max(V[j], Intrinsic(opt, Mul(Fin(j - 1, 1), dS)))]
        ELSE V

(* Projection step for American options *)
Projection(opt, config, V) ==
    LET dS == Div(Smax(opt, config), Fin(config.crankSpotSteps, 1))
    IN  IF opt.style = "American"
        THEN [j \in 1..Len(V) |->
                 Max(V[j], Intrinsic(opt, Mul(Fin(j - 1, 1), dS)))]
        ELSE V

(* Linear interpolation at S0 *)
CrankInterpolate(opt, config, V) ==
    LET M == config.crankSpotSteps
        S0 == opt.underlying
        dS == Div(Smax(opt, config), Fin(M, 1))
        q == Div(S0, dS)
        j == TruncDiv(q.n, q.d)
        weight == Div(Sub(S0, Mul(Fin(j, 1), dS)), dS)
    IN  IF Le(S0, Zero) THEN V[1]
        ELSE IF Ge(S0, Smax(opt, config)) THEN V[M + 1]
        ELSE Add(Mul(V[j + 1], Sub(One, weight)), Mul(V[j + 2], weight))

CrankGrids == {<<1, 3>>, <<1, 4>>, <<2, 3>>}
CrankRates == {Zero, Fin(1, 2)}
CrankEngines ==
    { [type |-> "CrankNicolson",
       config |-> [PricingConfiguration EXCEPT
                     !.riskFreeRate = r, !.yieldCurve = curve,
                     !.crankTimeSteps = g[1], !.crankSpotSteps = g[2]]] :
        r \in CrankRates,
        curve \in {<<>>, <<RatePoint(Zero, Zero),
                           RatePoint(One, Fin(1, 2))>>},
        g \in CrankGrids }

CrankOptions ==
    { Option(Fin(1, 1), Fin(1, 1), One, q, type, style) :
        q \in {Zero, Fin(1, 2)}, type \in {"Call", "Put"},
        style \in {"European", "American"} }

(* price is called: the grid and the terminal payoffs. *)
CrankBegin ==
    /\ ret = Idle
    /\ \E opt \in CrankOptions :
          LET M == pricer.config.crankSpotSteps
              dS == Div(Smax(opt, pricer.config), Fin(M, 1))
          IN  ret' = [op |-> "crank", pc |-> "loop", opt |-> opt,
                      n |-> pricer.config.crankTimeSteps,
                      V |-> [j \in 1..(M + 1) |->
                                Intrinsic(opt, Mul(Fin(j - 1, 1), dS))],
                      old |-> <<>>, newV |-> <<>>, r_local |-> NaN,
                      e |-> NaN, price |-> NaN]
    /\ UNCHANGED <<data_, now, file, pricer>>

(* One pass of the backward induction loop: n from N - 1 down to 0. *)
CrankStep ==
    /\ ret # Idle
    /\ ret.pc = "loop"
    /\ ret.n > 0
    /\ LET config == pricer.config
           T == config.maturity
           n == ret.n - 1
           dt == Div(T, Fin(config.crankTimeSteps, 1))
           left == Sub(T, Mul(Fin(n, 1), dt))
           r_local == LocalRate(config, Div(left, T))
       IN  \E e \in Exp(Mul(Neg(r_local), left)) :
              \E newV \in {CrankSlice(ret.opt, config, ret.V, r_local, e)} :
                 ret' = [ret EXCEPT !.n = n, !.old = ret.V, !.newV = newV,
                                    !.V = Projection(ret.opt, config, newV),
                                    !.r_local = r_local, !.e = e]
    /\ UNCHANGED <<data_, now, file, pricer>>

(* The loop is over: the price at S0. *)
CrankReturn ==
    /\ ret # Idle
    /\ ret.pc = "loop"
    /\ ret.n = 0
    /\ ret' = [ret EXCEPT !.pc = "done",
                          !.price = CrankInterpolate(ret.opt, pricer.config,
                                                     ret.V)]
    /\ UNCHANGED <<data_, now, file, pricer>>

CrankTake ==
    /\ ret # Idle
    /\ ret.pc = "done"
    /\ ret' = Idle
    /\ UNCHANGED <<data_, now, file, pricer>>

InitCrank ==
    /\ data_ = <<>>
    /\ now = 0
    /\ file = NoFile
    /\ pricer \in CrankEngines
    /\ ret = Idle

NextCrank == CrankBegin \/ CrankStep \/ CrankReturn \/ CrankTake

SpecCrank == InitCrank /\ [][NextCrank]_vars

----------------------------------------------------------------------------
(* The backward induction of BinomialPricer::price, one assignment to      *)
(* prices[j] at a time. Doubles are kept as terms: the payoff at a node,   *)
(* the discounted expectation of two terms under the rate of a level, and  *)
(* std::max of two terms. prices[j] is at index j + 1.                     *)

MaxLevels == 3

(* max(S_j - K, 0) or max(K - S_j, 0) at S_j = S u^j d^(i-j) *)
PayoffTerm(i, j) == <<"payoff", i, j>>

(* discountFactor * (p_local * up + (1 - p_local) * down) *)
ContinuationTerm(r_local, up, down) == <<"continuation", r_local, up, down>>

MaxTerm(a, b) == <<"max", a, b>>

(* An inner loop running from j = i down to 0. *)
InnerOrderDescending(i) == [k \in 1..(i + 1) |-> i + 1 - k]

(* for (int j = 0; j <= i; ++j) *)
InnerOrder(i) == [k \in 1..(i + 1) |-> k - 1]

TreeEngines ==
    { [type |-> "Binomial",
       config |-> [PricingConfiguration EXCEPT
                     !.maturity = One, !.riskFreeRate = Fin(1, 100),
                     !.yieldCurve = curve, !.binomialSteps = n]] :
        curve \in Curves, n \in 1..MaxLevels }

TreeOptions ==
    { Option(Fin(100, 1), Fin(100, 1), Fin(1, 5), Zero, type, style) :
        type \in {"Call", "Put"}, style \in {"European", "American"} }

(* price is called: the validity check and the terminal payoffs. *)
TreeBegin ==
    /\ ret = Idle
    /\ \E opt \in TreeOptions :
          LET N == pricer.config.binomialSteps
              dt == Div(pricer.config.maturity, Fin(N, 1))
              p == ProbabilityClass(pricer.config.riskFreeRate, opt.dividend,
                                    opt.volatility, dt)
          IN  ret' = [op |-> "tree",
                      pc |-> IF BinomialUnstable(p) THEN "thrown" ELSE "level",
                      opt |-> opt, i |-> N, k |-> 1,
                      prices |-> [k \in 1..(N + 1) |-> PayoffTerm(N, k - 1)],
                      written |-> {}, stale |-> FALSE, r_local |-> NaN,
                      price |-> <<>>]
    /\ UNCHANGED <<data_, now, file, pricer>>

(* The head of the outer loop, i = N-1 down to 0: the rate of the level. *)
TreeLevel ==
    /\ ret # Idle
    /\ ret.pc = "level"
    /\ ret.i > 0
    /\ LET N == pricer.config.binomialSteps
           i == ret.i - 1
           r == getRate(pricer.config.yieldCurve, Div(Fin(i, 1), Fin(N, 1)))
       IN  IF r.kind = "error"
           THEN ret' = [ret EXCEPT !.pc = "thrown"]
           ELSE ret' = [ret EXCEPT !.pc = "node", !.i = i, !.k = 1,
                                   !.written = {}, !.r_local = r.value]
    /\ UNCHANGED <<data_, now, file, pricer>>

(* One pass of the inner loop: prices[j] from prices[j + 1] and prices[j]. *)
TreeNode ==
    /\ ret # Idle
    /\ ret.pc = "node"
    /\ LET i == ret.i
           j == InnerOrder(i)[ret.k]
           continuation == ContinuationTerm(ret.r_local, ret.prices[j + 2],
                                            ret.prices[j + 1])
           value == IF ret.opt.style = "American"
                    THEN MaxTerm(continuation, PayoffTerm(i, j))
                    ELSE continuation
       IN  ret' = [ret EXCEPT
                     !.prices[j + 1] = value,
                     !.written = ret.written \cup {j},
                     !.stale = ret.stale \/ j \in ret.written
                                         \/ (j + 1) \in ret.written,
                     !.k = ret.k + 1,
                     !.pc = IF ret.k = i + 1 THEN "level" ELSE "node"]
    /\ UNCHANGED <<data_, now, file, pricer>>

(* return prices[0] *)
TreeReturn ==
    /\ ret # Idle
    /\ ret.pc = "level"
    /\ ret.i = 0
    /\ ret' = [ret EXCEPT !.pc = "done", !.price = ret.prices[1]]
    /\ UNCHANGED <<data_, now, file, pricer>>

TreeTake ==
    /\ ret # Idle
    /\ ret.pc \in {"done", "thrown"}
    /\ ret' = Idle
    /\ UNCHANGED <<data_, now, file, pricer>>

InitTree ==
    /\ data_ = <<>>
    /\ now = 0
    /\ file = NoFile
    /\ pricer \in TreeEngines
    /\ ret = Idle

NextTree == TreeBegin \/ TreeLevel \/ TreeNode \/ TreeReturn \/ TreeTake

SpecTree == InitTree /\ [][NextTree]_vars

----------------------------------------------------------------------------
(* The Longstaff-Schwartz backward pass of MonteCarloPricer::price on      *)
(* exact values, one time index t at a time. The simulated paths are       *)
(* inputs: paths[i][j] is at index j + 1 of path i. std::exp(-r dt) is one *)
(* value e of Exp. The determinant of the normal equations cancels         *)
(* products of order x^6, so the double the code holds is the exact        *)
(* determinant plus a rounding error: zero, or -2^-13 as for spots near    *)
(* 100.                                                                    *)

RoundingErrors == {Zero, Fin(-1, 8192)}

(* std::abs(D) < 1e-10. A rational n/d with d < 2^31 < 10^10 is below      *)
(* 10^-10 in magnitude iff n = 0; NaN is not below anything.               *)
Negligible(D) == IsFin(D) /\ D.n = 0

(* max(x - K, 0) or max(K - x, 0) *)
LsmPayoff(opt, x) == Intrinsic(opt, x)

(* The paths the regression at t would use without the test on             *)
(* exerciseTime.                                                           *)
InTheMoneyIndicesAnyTime(opt, N, paths, exerciseTime, t) ==
    SelectSeq([i \in 1..Len(paths) |-> i],
              LAMBDA i : Gt(LsmPayoff(opt, paths[i][t + 1]), Zero))

(* inTheMoneyIndices: intrinsic > 0.0 && exerciseTime[i] == NSteps *)
InTheMoneyIndices(opt, N, paths, exerciseTime, t) ==
    SelectSeq([i \in 1..Len(paths) |-> i],
              LAMBDA i : /\ Gt(LsmPayoff(opt, paths[i][t + 1]), Zero)
                         /\ exerciseTime[i] = N)

RECURSIVE Power(_, _)
Power(x, n) == IF n = 0 THEN One ELSE Mul(x, Power(x, n - 1))

(* sum1, sumX, .., sumX4, sumY, sumXY, sumX2Y over the (x, y) pairs *)
RegressionSums(X, Y) ==
    LET sum(f(_)) == SumSeq([k \in 1..Len(X) |-> f(k)])
        x(k) == X[k]
        xx(k) == Mul(X[k], X[k])
        xxx(k) == Mul(xx(k), X[k])
        xxxx(k) == Mul(xxx(k), X[k])
        y(k) == Y[k]
        xy(k) == Mul(X[k], Y[k])
        xxy(k) == Mul(xx(k), Y[k])
    IN  [sum1 |-> Fin(Len(X), 1), sumX |-> sum(x), sumX2 |-> sum(xx),
         sumX3 |-> sum(xxx), sumX4 |-> sum(xxxx), sumY |-> sum(y),
         sumXY |-> sum(xy), sumX2Y |-> sum(xxy)]

(* a * (b * c - d * e) *)
Minor(a, b, c, d, e) == Mul(a, Sub(Mul(b, c), Mul(d, e)))

Determinant(s) ==
    Add(Sub(Minor(s.sum1, s.sumX2, s.sumX4, s.sumX3, s.sumX3),
            Minor(s.sumX, s.sumX, s.sumX4, s.sumX2, s.sumX3)),
        Minor(s.sumX2, s.sumX, s.sumX3, s.sumX2, s.sumX2))

(* a0, a1 and a2 by Cramer's rule with the determinant D the code holds *)
Coefficients(s, D) ==
    [a0 |-> Div(Add(Sub(Minor(s.sumY, s.sumX2, s.sumX4, s.sumX3, s.sumX3),
                        Minor(s.sumX, s.sumXY, s.sumX4, s.sumX3, s.sumX2Y)),
                    Minor(s.sumX2, s.sumXY, s.sumX3, s.sumX2, s.sumX2Y)), D),
     a1 |-> Div(Add(Sub(Minor(s.sum1, s.sumXY, s.sumX4, s.sumX3, s.sumX2Y),
                        Minor(s.sumY, s.sumX, s.sumX4, s.sumX2, s.sumX3)),
                    Minor(s.sumX2, s.sumX, s.sumX2Y, s.sumX2, s.sumXY)), D),
     a2 |-> Div(Add(Sub(Minor(s.sum1, s.sumX2, s.sumX2Y, s.sumX3, s.sumXY),
                        Minor(s.sumX, s.sumX, s.sumX2Y, s.sumX2, s.sumXY)),
                    Minor(s.sumY, s.sumX, s.sumX3, s.sumX2, s.sumX2)), D)]

(* continuation = a0 + a1 * x + a2 * x * x *)
Continuation(a, x) == Add(Add(a.a0, Mul(a.a1, x)), Mul(Mul(a.a2, x), x))

(* The exercise decisions of time index t: the paths of the regression     *)
(* whose immediate value exceeds the fitted continuation value.            *)
Exercised(opt, paths, indices, a, t) ==
    { i \in {indices[k] : k \in 1..Len(indices)} :
        Gt(LsmPayoff(opt, paths[i][t + 1]),
           Continuation(a, paths[i][t + 1])) }

MaxLsmPaths == 3

LsmPaths ==
    { <<Fin(4, 1), Fin(3, 1), Fin(1, 1), Fin(2, 1)>>,
      <<Fin(4, 1), Fin(2, 1), Fin(2, 1), Fin(5, 1)>>,
      <<Fin(4, 1), Fin(1, 1), Fin(3, 1), Fin(3, 1)>>,
      <<Fin(4, 1), Fin(5, 1), Fin(5, 1), Fin(1, 1)>> }

LsmGrids ==
    UNION { [1..n -> LsmPaths] : n \in 1..MaxLsmPaths }

LsmEngines ==
    { [type |-> "MonteCarlo",
       config |-> [PricingConfiguration EXCEPT
                     !.maturity = One, !.riskFreeRate = r,
                     !.mcNumPaths = n, !.mcTimeStepsPerPath = 3]] :
        r \in {Zero, Fin(1, 2)}, n \in 1..MaxLsmPaths }

LsmOptions ==
    { Option(Fin(4, 1), Fin(4, 1), One, Zero, type, "American") :
        type \in {"Call", "Put"} }

(* The paths are simulated: cash flows at maturity, exerciseTime = NSteps. *)
LsmBegin ==
    /\ ret = Idle
    /\ \E opt \in LsmOptions,
          paths \in { g \in LsmGrids : Len(g) = pricer.config.mcNumPaths } :
          LET NSteps == pricer.config.mcTimeStepsPerPath
              dt == Div(pricer.config.maturity, Fin(NSteps, 1))
              r_local == LocalRate(pricer.config, One)
          IN  \E e \in Exp(Mul(Neg(r_local), dt)) :
                 ret' = [op |-> "lsm", pc |-> "loop", opt |-> opt,
                         paths |-> paths, e |-> e, t |-> NSteps - 1,
                         cashFlow |-> [i \in 1..Len(paths) |->
                             LsmPayoff(opt, paths[i][NSteps + 1])],
                         exerciseTime |-> [i \in 1..Len(paths) |-> NSteps],
                         step |-> NSteps, before |-> <<>>,
                         indices |-> <<>>, exact |-> NaN, D |-> NaN,
                         fit |-> <<>>, times |-> [i \in 1..Len(paths) |-> 0],
                         price |-> NaN]
    /\ UNCHANGED <<data_, now, file, pricer>>

(* One pass of the backward induction, t from NSteps - 1 down to 1. *)
LsmStep ==
    /\ ret # Idle
    /\ ret.op = "lsm"
    /\ ret.pc = "loop"
    /\ ret.t >= 1
    /\ LET NSteps == pricer.config.mcTimeStepsPerPath
           t == ret.t
           indices == InTheMoneyIndices(ret.opt, NSteps, ret.paths,
                                        ret.exerciseTime, t)
           X == [k \in 1..Len(indices) |-> ret.paths[indices[k]][t + 1]]
           Y == [k \in 1..Len(indices) |->
                    Mul(ret.cashFlow[indices[k]],
                        Power(ret.e, ret.exerciseTime[indices[k]] - t))]
           seen == [ret EXCEPT !.t = t - 1, !.step = t, !.indices = indices,
                               !.before = [cashFlow |-> ret.cashFlow,
                                           exerciseTime |-> ret.exerciseTime],
                               !.exact = NaN, !.D = NaN, !.fit = <<>>]
       IN  IF indices = <<>>
           THEN ret' = seen
           ELSE \E sums \in {RegressionSums(X, Y)}, err \in RoundingErrors :
                   \E D \in {Add(Determinant(sums), err)} :
                      IF Negligible(D)
                      THEN ret' = [seen EXCEPT !.exact = Determinant(sums),
                                               !.D = D]
                      ELSE \E a \in {Coefficients(sums, D)} :
                         \E marked \in {Exercised(ret.opt, ret.paths,
                                                  indices, a, t)} :
                            ret' = [seen EXCEPT
                               !.exact = Determinant(sums), !.D = D,
                               !.fit = <<a>>,
                               !.cashFlow = [i \in 1..Len(ret.paths) |->
                                   IF i \in marked
                                   THEN LsmPayoff(ret.opt, ret.paths[i][t + 1])
                                   ELSE ret.cashFlow[i]],
                               !.exerciseTime = [i \in 1..Len(ret.paths) |->
                                   IF i \in marked THEN t
                                   ELSE ret.exerciseTime[i]],
                               !.times = [i \in 1..Len(ret.paths) |->
                                   IF i \in marked THEN ret.times[i] + 1
                                   ELSE ret.times[i]]]
    /\ UNCHANGED <<data_, now, file, pricer>>

(* Final discounting from time 0 to exerciseTime and the mean. *)
LsmReturn ==
    /\ ret # Idle
    /\ ret.op = "lsm"
    /\ ret.pc = "loop"
    /\ ret.t < 1
    /\ ret' = [ret EXCEPT
                 !.pc = "done",
                 !.price = Div(SumSeq([i \in 1..Len(ret.paths) |->
                                   Mul(ret.cashFlow[i],
                                       Power(ret.e, ret.exerciseTime[i]))]),
                               Fin(Len(ret.paths), 1))]
    /\ UNCHANGED <<data_, now, file, pricer>>

LsmTake ==
    /\ ret # Idle
    /\ ret.pc = "done"
    /\ ret' = Idle
    /\ UNCHANGED <<data_, now, file, pricer>>

InitLsm ==
    /\ data_ = <<>>
    /\ now = 0
    /\ file = NoFile
    /\ pricer \in LsmEngines
    /\ ret = Idle

NextLsm == LsmBegin \/ LsmStep \/ LsmReturn \/ LsmTake

SpecLsm == InitLsm /\ [][NextLsm]_vars

----------------------------------------------------------------------------
(* Engine claims.                                                          *)

(* T_eff as the specification defines it: T when the valuation date is    *)
(* empty, T - years(now - valuationDate) otherwise.                        *)
StatedTeff(config, clock) ==
    IF config.calculationDate.k = "empty" THEN config.maturity
    ELSE Sub(config.maturity,
             yearsBetween(parseDate(config.calculationDate).time, clock))

(* The step count of the engine's time discretization. *)
TimeSteps(type, config) ==
    CASE type = "Binomial" -> config.binomialSteps
      [] type = "CrankNicolson" -> config.crankTimeSteps
      [] type = "MonteCarlo" -> config.mcTimeStepsPerPath
      [] OTHER -> 1

EngineCall == ret.op \in {"price", "computeGreeks"}

(* C4: with an empty yield curve no price or computeGreeks call of any     *)
(* engine ends in the empty-curve error, and every short rate a price call *)
(* uses is the fallback riskFreeRate.                                      *)
C4_Original ==
    (EngineCall /\ pricer.config.yieldCurve = <<>>) =>
        /\ ret.out.err # "EmptyCurve"
        /\ \A i \in 1..Len(ret.out.rates) :
              ret.out.rates[i] = pricer.config.riskFreeRate

(* C5: a price call of any engine ends in an error whenever the effective  *)
(* time to maturity is <= 0.                                               *)
C5_Original ==
    (ret.op = "price" /\ pricer.config.calculationDate.k # "bad"
        /\ Le(StatedTeff(pricer.config, ret.at), Zero))
    => ret.out.kind = "error"

(* C6: with a valuation date in the config, every engine that returns a    *)
(* price has used T_eff = T - offset and the time step T_eff / steps.      *)
C6_Original ==
    (ret.op = "price" /\ pricer.config.calculationDate.k = "day"
        /\ ret.out.kind = "value")
    => LET Teff == StatedTeff(pricer.config, ret.at)
       IN  /\ ret.out.Teff = Teff
           /\ ret.out.dt =
                 Div(Teff, Fin(TimeSteps(pricer.type, pricer.config), 1))

(* C8: BlackScholesPricer::price and computeGreeks end in the unsupported- *)
(* style error for every American option, whatever the config (even one    *)
(* whose date does not parse), and never for a European option.            *)
C8_StyleCheckFirst ==
    (EngineCall /\ pricer.type = "BlackScholes") =>
        /\ ret.opt.style = "American" =>
              (ret.out.kind = "error" /\ ret.out.err = "UnsupportedStyle")
        /\ ret.opt.style = "European" => ret.out.err # "UnsupportedStyle"

(* An American option priced under a config whose date does not parse.     *)
C8_Witness ==
    /\ ret.op = "price"
    /\ pricer.type = "BlackScholes"
    /\ ret.opt.style = "American"
    /\ pricer.config.calculationDate = BadDate
    /\ ret.out.err = "UnsupportedStyle"

(* C9: BinomialPricer::price ends in the unstable-tree error, before any   *)
(* payoff is computed, whenever the validation probability built from the  *)
(* fallback rate is < 0 or > 1, for both types and both styles; when it is *)
(* in [0,1] the call does not end in that error.                           *)
C9_UnstableTreeCheck ==
    (ret.op = "price" /\ pricer.type = "Binomial") =>
        LET config == pricer.config
            dt == Div(config.maturity, Fin(config.binomialSteps, 1))
            p0 == ProbabilityClass(config.riskFreeRate, ret.opt.dividend,
                                   ret.opt.volatility, dt)
        IN  /\ p0 \in {"below", "above"} =>
                  ret.out = Fail("UnstableTree", FALSE)
            /\ p0 = "in" => ret.out.err # "UnstableTree"

(* An American put whose validation probability is above 1. *)
C9_Witness ==
    /\ ret.op = "price"
    /\ pricer.type = "Binomial"
    /\ ret.opt.style = "American"
    /\ ret.opt.type = "Put"
    /\ ProbabilityClass(pricer.config.riskFreeRate, ret.opt.dividend,
                        ret.opt.volatility,
                        Div(pricer.config.maturity,
                            Fin(pricer.config.binomialSteps, 1))) = "above"
    /\ ret.out.err = "UnstableTree"
    /\ ~ret.out.payoffs

----------------------------------------------------------------------------
(* Host claims.                                                            *)

HostCall == ret.op \in {"hostPrice", "hostGreeks"}

(* C7: a host call with a null or empty calculationDate prices with an     *)
(* effective time to maturity equal to the argument T, at any clock time.  *)
C7_Original ==
    (HostCall /\ ret.args.calculationDate.k \in {"null", "empty"}
        /\ ret.out.kind = "value")
    => ret.out.Teff = ret.args.T

(* What the claim counts as a failure inside an entry point. *)
HostFailure ==
    \/ ret.out.kind = "error"
    \/ ret.args.calculationDate = BadDate
    \/ ret.entry = "BlackScholes" /\ ret.args.optionStyle # 0
    \/ /\ ret.entry # "BlackScholes"
       /\ \/ ~file.exists
          \/ \E i \in 1..Len(file.lines) : file.lines[i] = Malformed
          \/ ret.args.steps < 1

(* C10: whenever anything fails inside an entry point, a price entry point *)
(* returns -1.0 and a Greeks entry point writes NaN to every out-parameter. *)
C10_Original ==
    (HostCall /\ HostFailure) =>
        /\ ret.op = "hostPrice" => ret.result = "sentinel"
        /\ ret.op = "hostGreeks" =>
              \A g \in GreekNames \ ret.nulls : ret.cells[g] = "nan"

----------------------------------------------------------------------------
(* Curve file claims.                                                      *)

(* A blank line is a line with no character ("one rate per non-empty      *)
(* line"); a line of whitespace only is not blank and is not two reals.    *)
BlankLine(line) == line.k = "blank"

(* The (maturity, rate) pairs of the non-blank lines, in file order. *)
RECURSIVE PairsOf(_)
PairsOf(lines) ==
    IF lines = <<>> THEN <<>>
    ELSE LET rest == PairsOf(Tail(lines))
         IN  IF BlankLine(Head(lines)) THEN rest
             ELSE <<RatePoint(Head(lines).maturity, Head(lines).rate)>> \o rest

(* The first line that is neither blank nor two reals, 0 when none. *)
FirstUnparsable(lines) ==
    LET bad == {i \in 1..Len(lines) :
                   ~BlankLine(lines[i]) /\ ~LineParses(lines[i])}
    IN  IF bad = {} THEN 0 ELSE CHOOSE i \in bad : \A j \in bad : i <= j

(* C11: loadFromFile fails with an I/O error and adds no point when the    *)
(* source cannot be opened; on a readable source it skips blank lines,     *)
(* fails with a format error naming the first line that does not parse as  *)
(* two reals, and otherwise succeeds, leaving in an initially empty curve  *)
(* exactly the pairs of the non-blank lines in file order.                 *)
C11_LoadFromFile ==
    ret.op = "loadFromFile" =>
        IF ~file.exists
        THEN ~ret.out.ok /\ ret.out.err = "IOError" /\ data_ = ret.before
        ELSE LET bad == FirstUnparsable(file.lines)
             IN  IF bad # 0
                 THEN /\ ~ret.out.ok
                      /\ ret.out.err = "FormatError"
                      /\ ret.out.line = bad
                 ELSE /\ ret.out.ok
                      /\ ret.before = <<>> => data_ = PairsOf(file.lines)

(* A successful load of a file whose first line is blank into an empty     *)
(* curve.                                                                  *)
C11_Witness ==
    /\ ret.op = "loadFromFile"
    /\ ret.out.ok
    /\ ret.before = <<>>
    /\ Len(file.lines) = 2
    /\ BlankLine(file.lines[1])
    /\ data_ = <<RatePoint(file.lines[2].maturity, file.lines[2].rate)>>

----------------------------------------------------------------------------
(* Discretization counts.                                                  *)

(* The counts the specification calls invalid for an engine. *)
InvalidCounts(type, config) ==
    CASE type = "Binomial" -> config.binomialSteps <= 0
      [] type = "CrankNicolson" ->
            config.crankSpotSteps < 3 \/ config.crankTimeSteps < 1
      [] type = "MonteCarlo" ->
            config.mcNumPaths <= 0 \/ config.mcTimeStepsPerPath <= 0
      [] OTHER -> FALSE

(* C12: a price call of the Binomial, CrankNicolson or MonteCarlo engine   *)
(* whose discretization counts are invalid ends in an error and returns no *)
(* value.                                                                  *)
C12_Original ==
    (ret.op = "price" /\ InvalidCounts(pricer.type, pricer.config))
    => ret.out.kind = "error"

----------------------------------------------------------------------------
(* Price bounds.                                                           *)

(* C13: every value a price call returns for a contract with S0 > 0,       *)
(* K > 0, sigma > 0 and q >= 0 is >= 0, for every engine, type, style and  *)
(* yield curve.                                                            *)
C13_Original ==
    (ret.op = "price" /\ ret.out.kind = "value"
        /\ Gt(ret.opt.underlying, Zero) /\ Gt(ret.opt.strike, Zero)
        /\ Gt(ret.opt.volatility, Zero) /\ Ge(ret.opt.dividend, Zero))
    => ret.out.price.sign # "neg"

(* a < b for two returned doubles, where the model decides it: by their    *)
(* signs, or for two positive prices with the same mean payoff by their    *)
(* discount factors.                                                       *)
SignRank(sign) == CASE sign = "neg" -> 0 [] sign = "zero" -> 1 [] sign = "pos" -> 2

PriceBelow(a, b) ==
    \/ /\ a.sign \in {"neg", "zero", "pos"}
       /\ b.sign \in {"neg", "zero", "pos"}
       /\ SignRank(a.sign) < SignRank(b.sign)
    \/ /\ a.gross # NoGross
       /\ a.gross = b.gross
       /\ a.sign = "pos" /\ b.sign = "pos"
       /\ Lt(a.logDisc, b.logDisc)

(* The price the same engine returns for the European option with          *)
(* otherwise identical inputs.                                             *)
EuropeanTwin ==
    EnginePrice(pricer.type, [ret.opt EXCEPT !.style = "European"],
                pricer.config, ret.at)

(* C14: the price the Binomial, CrankNicolson or MonteCarlo engine returns *)
(* for an American option is never below the price it returns for the      *)
(* European option with the same inputs.                                   *)
C14_Original ==
    (ret.op = "price" /\ ret.opt.style = "American"
        /\ pricer.type \in {"Binomial", "CrankNicolson", "MonteCarlo"}
        /\ ret.out.kind = "value" /\ EuropeanTwin.kind = "value")
    => ~PriceBelow(ret.out.price, EuropeanTwin.price)

----------------------------------------------------------------------------
(* Independence and determinism.                                           *)

(* The result of the call in ret had the engine's config held this curve. *)
WithCurve(curve) ==
    LET config == [pricer.config EXCEPT !.yieldCurve = curve]
    IN  IF ret.op = "price"
        THEN EnginePrice(pricer.type, ret.opt, config, ret.at)
        ELSE EngineGreeks(pricer.type, ret.opt, config, ret.at)

HarnessCall == ret.op = "computeGreeks" /\ pricer.type # "BlackScholes"

RhoConfig(config, used, by) ==
    IF config.yieldCurve # <<>>
    THEN /\ Len(used.yieldCurve) = Len(config.yieldCurve)
         /\ \A i \in 1..Len(config.yieldCurve) :
               /\ used.yieldCurve[i].maturity = config.yieldCurve[i].maturity
               /\ used.yieldCurve[i].rate =
                      Add(config.yieldCurve[i].rate, by)
         /\ used.riskFreeRate = config.riskFreeRate
    ELSE /\ used.yieldCurve = <<>>
         /\ used.riskFreeRate = Add(config.riskFreeRate, by)

C17_RhoConfigs ==
    HarnessCall =>
        LET calls == GreeksCalls(ret.opt, pricer.config)
        IN  /\ calls[Rho.up].opt = ret.opt
            /\ calls[Rho.down].opt = ret.opt
            /\ RhoConfig(pricer.config, calls[Rho.up].config, Fin(1, 1000))
            /\ RhoConfig(pricer.config, calls[Rho.down].config,
                         Fin(-1, 1000))
            /\ Rho.by = Fin(2, 1000)

C17_Witness ==
    /\ HarnessCall
    /\ pricer.type = "MonteCarlo"
    /\ Len(pricer.config.yieldCurve) = 2
    /\ ret.out.kind = "value"
    /\ ret.out.priced = 8

(* C18: a computeGreeks call of the Binomial, CrankNicolson or MonteCarlo  *)
(* engine leaves the engine's config and the curve as they were; every     *)
(* config it prices with that is not the engine's differs from it in       *)
(* exactly one of maturity, riskFreeRate or the curve's rates, and every   *)
(* option it prices that is not the caller's differs from it in exactly    *)
(* one of underlying or volatility.                                        *)
DiffFields(a, b) == {f \in DOMAIN a : a[f] # b[f]}

SameMaturities(a, b) ==
    /\ Len(a) = Len(b)
    /\ \A i \in 1..Len(a) : a[i].maturity = b[i].maturity

PerturbedOnce(opt, config) ==
    LET calls == GreeksCalls(opt, config)
        dc(i) == DiffFields(calls[i].config, config)
        do(i) == DiffFields(calls[i].opt, opt)
    IN  /\ \A i \in 1..Len(calls) :
              /\ dc(i) # {} =>
                    /\ Cardinality(dc(i)) = 1
                    /\ dc(i) \subseteq
                           {"maturity", "riskFreeRate", "yieldCurve"}
                    /\ SameMaturities(calls[i].config.yieldCurve,
                                      config.yieldCurve)
              /\ do(i) # {} =>
                    /\ Cardinality(do(i)) = 1
                    /\ do(i) \subseteq {"underlying", "volatility"}
        /\ Cardinality({i \in 1..Len(calls) : dc(i) # {}}) = 3
        /\ Cardinality({i \in 1..Len(calls) : do(i) # {}}) = 4

C18_GreeksFrame ==
    [][ (ret = Idle /\ ret' # Idle /\ ret'.op = "computeGreeks"
            /\ pricer.type # "BlackScholes")
        => /\ pricer' = pricer
           /\ data_' = data_
           /\ PerturbedOnce(ret'.opt, pricer'.config) ]_vars

C18_Witness ==
    /\ HarnessCall
    /\ pricer.type = "Binomial"
    /\ pricer.config.yieldCurve # <<>>
    /\ ret.out.kind = "value"
    /\ ret.out.priced = 8

(* C16: MonteCarloPricer::price is deterministic. On an engine with an     *)
(* empty valuation date a call returns the value, and consumes the draws,  *)
(* of the previous call with the same operation and option; every price    *)
(* call starts its generator afresh, its paths taking the draws 0, NSteps, *)
(* 2 NSteps, ...; so the base, the two spot-bumped and the two             *)
(* volatility-bumped prices of one computeGreeks call consume the same     *)
(* draws.                                                                  *)
RepeatCall ==
    /\ ret.frame["A"].pc = "done"
    /\ pricer["A"].type = "MonteCarlo"
    /\ pricer["A"].config.calculationDate = EmptyDate

FreshDraws(draws, NSteps) ==
    \A b \in 1..Len(draws) : draws[b] = (b - 1) * NSteps

C16_Deterministic ==
    RepeatCall =>
        LET f == ret.frame["A"]
        IN  /\ (f.prev.op = f.op /\ f.prev.opt = f.opt) =>
                  (f.out = f.prev.out /\ f.log = f.prev.log)
            /\ \A i \in 1..Len(f.log) :
                  FreshDraws(f.log[i],
                             pricer["A"].config.mcTimeStepsPerPath)
            /\ (f.op = "computeGreeks" /\ Len(f.log) >= 5) =>
                  \A i \in 1..5 : f.log[i] = f.log[1] /\ f.log[i] # <<>>

C16_Witness ==
    /\ RepeatCall
    /\ ret.frame["A"].op = "computeGreeks"
    /\ ret.frame["A"].prev.op = "computeGreeks"
    /\ ret.frame["A"].prev.opt = ret.frame["A"].opt
    /\ ret.frame["A"].prev.at < ret.frame["A"].at
    /\ Len(ret.frame["A"].log) = 8

(* C19: two calls running concurrently on two engine instances interleave  *)
(* in any order and each ends with what it ends with when run alone: the   *)
(* outcome of its engine on its option and config, every price call having *)
(* consumed the draws 0, NSteps, 2 NSteps, ... of a generator of its own;  *)
(* nothing is kept in static storage.                                      *)
AloneOut(t) ==
    LET f == ret.frame[t]
    IN  IF f.op = "price"
        THEN EnginePrice(pricer[t].type, f.opt, pricer[t].config, f.at)
        ELSE EngineGreeks(pricer[t].type, f.opt, pricer[t].config, f.at)

AloneLog(t) ==
    LET f == ret.frame[t]
        calls == FrameCalls(pricer[t].type, f.op, f.opt, pricer[t].config,
                            AloneOut(t))
    IN  [i \in 1..Len(calls) |->
            [b \in 1..MonteCarloPaths(pricer[t].type, calls[i].opt,
                                      calls[i].config, f.at) |->
                (b - 1) * calls[i].config.mcTimeStepsPerPath]]

C19_Interleaving ==
    /\ ret.rng[Static] = 0
    /\ \A t \in Threads :
          ret.frame[t].pc = "done" =>
              /\ ret.frame[t].out = AloneOut(t)
              /\ ret.frame[t].log = AloneLog(t)

C19_Witness ==
    /\ \A t \in Threads : pricer[t].type = "MonteCarlo"
    /\ ret.frame["A"].pc = "done"
    /\ ret.frame["A"].op = "computeGreeks"
    /\ Len(ret.frame["A"].log) = 8
    /\ ret.frame["B"].pc = "draw"
    /\ ret.frame["B"].k >= 2
    /\ ret.frame["B"].cur # <<>>

(* C20: after each Crank-Nicolson time step, before the American           *)
(* projection, the new slice has the boundary values of the step at the    *)
(* nodes 0 and M and satisfies at every interior node j = 1..M-1           *)
(*   -A_j Vnew[j-1] + B_j Vnew[j] - C_j Vnew[j+1]                          *)
(*       = A_j Vold[j-1] + E_j Vold[j] + C_j Vold[j+1].                    *)
Stepped == ret # Idle /\ ret.op = "crank" /\ ret.newV # <<>>

SchemeCoefficients(opt, config, r_n, j) ==
    LET dt == Div(config.maturity, Fin(config.crankTimeSteps, 1))
        s2 == Mul(Mul(opt.volatility, opt.volatility), Fin(j * j, 1))
        drift == Mul(Sub(r_n, opt.dividend), Fin(j, 2))
        h == Mul(Fin(1, 2), dt)
    IN  [A |-> Mul(h, Sub(Mul(Fin(1, 2), s2), drift)),
         B |-> Add(One, Mul(h, Add(s2, r_n))),
         C |-> Mul(h, Add(Mul(Fin(1, 2), s2), drift)),
         E |-> Sub(One, Mul(h, Add(s2, r_n)))]

SchemeHolds(j) ==
    LET k == SchemeCoefficients(ret.opt, pricer.config, ret.r_local, j)
        new(i) == ret.newV[i + 1]
        old(i) == ret.old[i + 1]
    IN  Add(Sub(Mul(k.B, new(j)), Mul(k.A, new(j - 1))),
            Neg(Mul(k.C, new(j + 1))))
        = Add(Add(Mul(k.A, old(j - 1)), Mul(k.E, old(j))),
              Mul(k.C, old(j + 1)))

BoundaryHolds ==
    LET M == pricer.config.crankSpotSteps
        K == Mul(ret.opt.strike, ret.e)
    IN  IF ret.opt.type = "Call"
        THEN /\ ret.newV[1] = Zero
             /\ ret.newV[M + 1] = Sub(Smax(ret.opt, pricer.config), K)
        ELSE /\ ret.newV[1] = K
             /\ ret.newV[M + 1] = Zero

C20_Original ==
    Stepped =>
        /\ BoundaryHolds
        /\ \A j \in 1..(pricer.config.crankSpotSteps - 1) : SchemeHolds(j)

(* The rows away from the boundary do satisfy the scheme. *)
C20_InnerRows ==
    Stepped =>
        /\ BoundaryHolds
        /\ \A j \in 2..(pricer.config.crankSpotSteps - 2) : SchemeHolds(j)

(* C29: loadFromFile only appends. After the call the curve is the curve   *)
(* of before the call followed by the pairs of the non-empty lines that    *)
(* precede the first line that does not parse (of all non-empty lines when *)
(* every line parses, of none when the source cannot be opened): a failed  *)
(* load is not rolled back.                                                *)
LoadedLines ==
    LET bad == FirstUnparsable(file.lines)
    IN  IF ~file.exists THEN <<>>
        ELSE IF bad = 0 THEN file.lines
        ELSE SubSeq(file.lines, 1, bad - 1)

C29_LoadAppends ==
    ret.op = "loadFromFile" =>
        /\ data_ = ret.before \o PairsOf(LoadedLines)
        /\ ret.out.data = data_

C29_Witness ==
    /\ ret.op = "loadFromFile"
    /\ ret.before # <<>>
    /\ ~ret.out.ok
    /\ ret.out.err = "FormatError"
    /\ Len(data_) > Len(ret.before)

(* C28: on every non-empty curve, whatever the order and multiplicity of   *)
(* its maturities, getRate returns a finite rate; when it interpolates,    *)
(* the two points it takes have different maturities and the factor is in  *)
(* [0, 1); the result lies between the rates of two adjacent points (is    *)
(* the rate of the point when there is one point), hence between the       *)
(* smallest and the largest stored rate.                                   *)
Between(x, a, b) == (Le(a, x) /\ Le(x, b)) \/ (Le(b, x) /\ Le(x, a))

Clamped(data, t) ==
    Le(t, data[1].maturity) \/ Ge(t, data[Len(data)].maturity)

(* The index of the point that ends the loop of getRate, 0 when none. *)
LoopIndex(data, t) ==
    LET above == {i \in 2..Len(data) : Lt(t, data[i].maturity)}
    IN  IF above = {} THEN 0 ELSE CHOOSE i \in above : \A j \in above : i <= j

FactorInRange(data, t) ==
    LET i == LoopIndex(data, t)
        width == Sub(data[i].maturity, data[i - 1].maturity)
        factor == Div(Sub(t, data[i - 1].maturity), width)
    IN  /\ i # 0
        /\ width # Zero
        /\ Le(Zero, factor)
        /\ Lt(factor, One)

C28_AnyOrderSafe ==
    (ret.op = "getRate" /\ data_ # <<>>) =>
        LET v == ret.out.value
        IN  /\ ret.out.kind = "value"
            /\ IsFin(v)
            /\ ~Clamped(data_, ret.t) => FactorInRange(data_, ret.t)
            /\ IF Len(data_) = 1 THEN v = data_[1].rate
               ELSE \E i \in 1..(Len(data_) - 1) :
                       Between(v, data_[i].rate, data_[i + 1].rate)
            /\ \E i \in 1..Len(data_) : Le(data_[i].rate, v)
            /\ \E i \in 1..Len(data_) : Le(v, data_[i].rate)

(* An interpolated rate on a curve that is out of order. *)
C28_Witness ==
    /\ ret.op = "getRate"
    /\ Len(data_) = 3
    /\ \E i \in 1..2 : Lt(data_[i + 1].maturity, data_[i].maturity)
    /\ ~Clamped(data_, ret.t)
    /\ \A i \in 1..3 : ret.out.value # data_[i].rate

----------------------------------------------------------------------------
(* Out-parameters of the Greeks entry points.                              *)

(* C30: in each Greeks entry point, whichever out-parameters are null, no  *)
(* null pointer is written through on either path, and every non-null      *)
(* out-parameter is written exactly once, with the computed Greek when the *)
(* call succeeded and with NaN when it failed.                             *)
C30_GuardedWrites ==
    ret.op = "hostGreeks" =>
        \A g \in GreekNames :
           /\ g \in ret.nulls =>
                 ret.cells[g] = "null" /\ ret.writes[g] = 0
           /\ g \notin ret.nulls =>
                 /\ ret.writes[g] = 1
                 /\ ret.out.kind = "error" => ret.cells[g] = "nan"
                 /\ ret.out.kind # "error" => ret.cells[g] = "greek"

C30_Witness ==
    /\ ret.op = "hostGreeks"
    /\ ret.nulls = {"vega", "rho"}
    /\ ret.out.kind = "error"
    /\ ret.cells["delta"] = "nan"
    /\ ret.cells["rho"] = "null"

----------------------------------------------------------------------------
(* Probabilities of the binomial induction.                                *)

(* p and 1 - p are both >= 0. *)
ProbabilityInRange(w) ==
    w \in {<<"pos", "pos">>, <<"zero", "pos">>, <<"pos", "zero">>}

(* C27: whenever BinomialPricer::price returns a value, every probability  *)
(* p_i of the backward induction, built from the rate the curve gives for  *)
(* level i = 0..N-1, lies in [0,1]. Stated for a tree with a positive     *)
(* time step and a positive volatility, where u > d and p_i is a number.   *)
C27_Original ==
    (ret.op = "price" /\ pricer.type = "Binomial" /\ ret.out.kind = "value"
        /\ IsFin(ret.out.dt) /\ Gt(ret.out.dt, Zero)
        /\ Gt(ret.opt.volatility, Zero))
    => \A k \in 1..Len(ret.out.rates) :
          ProbabilityInRange(LocalProbability(ret.out.rates[k],
              ret.opt.dividend, ret.opt.volatility, ret.out.dt))

----------------------------------------------------------------------------
(* Early exercise in the Crank-Nicolson engine.                            *)

(* The intrinsic value at node j of the grid (index j + 1 of a slice). *)
NodeIntrinsic(j) ==
    LET config == pricer.config
        dS == Div(Smax(ret.opt, config), Fin(config.crankSpotSteps, 1))
    IN  Intrinsic(ret.opt, Mul(Fin(j, 1), dS))

(* The slice of the intrinsic values, interpolated at S0 as the price is. *)
InterpolatedIntrinsic ==
    CrankInterpolate(ret.opt, pricer.config,
        [j \in 1..(pricer.config.crankSpotSteps + 1) |->
            NodeIntrinsic(j - 1)])

(* C22: for an American option every slice the time loop leaves satisfies  *)
(* V[j] >= intrinsic(S_j) at every node j = 0..M, the two boundary nodes   *)
(* included, and the returned price is >= the interpolated intrinsic       *)
(* value; for a European option the slice is the solved one, unprojected.  *)
C22_Projection ==
    (ret.op = "crank" /\ ret.newV # <<>>) =>
        /\ ret.opt.style = "American" =>
              /\ \A j \in 0..pricer.config.crankSpotSteps :
                    Ge(ret.V[j + 1], NodeIntrinsic(j))
              /\ ret.pc = "done" => Ge(ret.price, InterpolatedIntrinsic)
        /\ ret.opt.style = "European" => ret.V = ret.newV

(* An American price returned after a step that left a boundary value and  *)
(* an interior value below the intrinsic value.                            *)
C22_Witness ==
    /\ ret.op = "crank"
    /\ ret.pc = "done"
    /\ ret.opt.style = "American"
    /\ Lt(ret.newV[1], NodeIntrinsic(0))
    /\ \E j \in 1..(pricer.config.crankSpotSteps - 1) :
          Lt(ret.newV[j + 1], NodeIntrinsic(j))
    /\ Gt(InterpolatedIntrinsic, Zero)

----------------------------------------------------------------------------
(* Normalized times of the yield curve queries.                            *)

(* { i/N : i = lo..hi } *)
Fractions(lo, hi, N) == { Div(Fin(i, 1), Fin(N, 1)) : i \in lo..hi }

(* The normalized times of one phase of the last price call. *)
QueriesOf(phase) ==
    { ret.queries[i].u :
        i \in { x \in 1..Len(ret.queries) : ret.queries[x].phase = phase } }

(* C25: with a step count N >= 1 and T_eff > 0, every normalized time at   *)
(* which an engine takes a rate lies in [0,1]; the Binomial engine uses    *)
(* exactly i/N for i = 0..N-1, the Crank-Nicolson engine exactly (N-n)/N   *)
(* for n = 0..N-1, the Monte Carlo simulation exactly j/N for j = 0..N-1,  *)
(* for European and American options alike, and the Monte Carlo regression *)
(* and final discounting only (N-k)/N with k in 0..N-1.                    *)
C25_QueryTimes ==
    (ret.op = "price" /\ ret.out.kind = "value"
        /\ TimeSteps(pricer.type, pricer.config) >= 1
        /\ Gt(ret.out.Teff, Zero)
        /\ (pricer.type = "MonteCarlo" => pricer.config.mcNumPaths >= 1))
    => LET N == TimeSteps(pricer.type, pricer.config)
       IN  /\ \A i \in 1..Len(ret.queries) :
                Ge(ret.queries[i].u, Zero) /\ Le(ret.queries[i].u, One)
           /\ pricer.type = "Binomial" =>
                /\ QueriesOf("induction") = Fractions(0, N - 1, N)
                /\ One \notin QueriesOf("induction")
           /\ pricer.type = "CrankNicolson" =>
                /\ QueriesOf("induction") = Fractions(1, N, N)
                /\ Zero \notin QueriesOf("induction")
           /\ pricer.type = "MonteCarlo" =>
                /\ QueriesOf("forward") = Fractions(0, N - 1, N)
                /\ QueriesOf("backward") \cup QueriesOf("discount")
                      \subseteq Fractions(1, N, N)
                /\ ret.opt.style = "American" =>
                      QueriesOf("discount") # {}

(* An American Monte Carlo price over two steps with a dated maturity and  *)
(* a curve: simulation, one regression and the final discounting.          *)
C25_Witness ==
    /\ ret.op = "price"
    /\ ret.out.kind = "value"
    /\ pricer.type = "MonteCarlo"
    /\ pricer.config.mcTimeStepsPerPath = 2
    /\ pricer.config.yieldCurve # <<>>
    /\ ret.opt.style = "American"
    /\ Lt(ret.out.Teff, pricer.config.maturity)
    /\ QueriesOf("backward") = {Fin(1, 2)}
    /\ Len(ret.queries) = 5

----------------------------------------------------------------------------
(* The finite differences of the three harnesses.                          *)

(* Eight prices to evaluate the differences on, in the order of            *)
(* GreeksCalls: P(S), P(S+h), P(S-h), P(sigma+), P(sigma-), P(T-1/365),    *)
(* P_up, P_down.                                                           *)
PriceSamples ==
    { <<Fin(10, 1), Fin(11, 1), Fin(8, 1), Fin(13, 1), Fin(9, 1),
        Fin(19, 2), Fin(12, 1), Fin(7, 1)>>,
      <<Fin(5, 2), Fin(3, 1), Fin(2, 1), Fin(2, 1), Fin(4, 1),
        Fin(5, 2), Fin(1, 1), Fin(6, 1)>> }

(* The value of a difference on eight prices. *)
Evaluate(f, P) ==
    Div(SumSeq([k \in 1..Len(f.terms) |->
                   Mul(Fin(f.terms[k].c, 1), P[f.terms[k].i])]), f.by)

(* The base price and the two spot bumps, priced base first: the first    *)
(* error among them, or the base price. The other five prices come after   *)
(* these three in every harness.                                           *)
BaseFirst ==
    LET calls == GreeksCalls(ret.opt, pricer.config)
        outs == [i \in 1..3 |-> EnginePrice(pricer.type, calls[i].opt,
                                            calls[i].config, ret.at)]
        bad == FirstError(outs, 1)
    IN  IF bad # 0 THEN outs[bad] ELSE outs[1]

(* C26: computeGreeks of Binomial, CrankNicolson and MonteCarlo return     *)
(* delta = (P(S+h) - P(S-h))/(2h), gamma = (P(S+h) - 2P(S) + P(S-h))/h^2   *)
(* with h = 0.01 S0, vega = (P(sigma+0.01) - P(sigma-0.01))/0.02,          *)
(* theta = (P(T-1/365) - P(T))/(-1/365) and rho = (P_up - P_down)/0.002,   *)
(* whichever of the two ways theta is written, and pricing the spot bumps  *)
(* before or after the base price gives the same outcome.                  *)
C26_OneHarness ==
    HarnessCall =>
        /\ \E f \in {HarnessFormulas(pricer.type, ret.opt)},
              h \in {Mul(Fin(1, 100), ret.opt.underlying)} :
              \A P \in PriceSamples :
                 /\ Evaluate(f.delta, P) =
                       Div(Sub(P[2], P[3]), Mul(Fin(2, 1), h))
                 /\ Evaluate(f.gamma, P) =
                       Div(Add(Sub(P[2], Mul(Fin(2, 1), P[1])), P[3]),
                           Mul(h, h))
                 /\ Evaluate(f.vega, P) = Div(Sub(P[4], P[5]), Fin(2, 100))
                 /\ Evaluate(f.theta, P) =
                       Div(Sub(P[6], P[1]), Fin(-1, 365))
                 /\ Evaluate(f.rho, P) = Div(Sub(P[7], P[8]), Fin(2, 1000))
        /\ pricer.type = "Binomial" =>
              \E first \in {BaseFirst} :
                 /\ first.kind = "error" =>
                       [ret.out EXCEPT !.priced = 0] = first
                 /\ first.kind = "value" =>
                       /\ ret.out.priced > 3
                       /\ ret.out.kind = "value" =>
                             [ret.out EXCEPT !.priced = 0] = first

(* A Binomial computeGreeks call that returns its five differences. *)
C26_Witness ==
    /\ HarnessCall
    /\ pricer.type = "Binomial"
    /\ ret.out.kind = "value"
    /\ Gt(ret.opt.underlying, Zero)
    /\ HarnessFormulas("Binomial", ret.opt).theta
          # HarnessFormulas("CrankNicolson", ret.opt).theta

----------------------------------------------------------------------------
(* The rolling vector of the binomial engine.                              *)

(* V_{i,j} of the two-dimensional recursion: the payoff at level N, below  *)
(* it the discounted expectation of V_{i+1,j+1} and V_{i+1,j} under the    *)
(* rate of level i, maximised with the payoff of the node for American.    *)
RECURSIVE TreeValue(_, _)
TreeValue(i, j) ==
    LET N == pricer.config.binomialSteps
        r_i == getRate(pricer.config.yieldCurve,
                       Div(Fin(i, 1), Fin(N, 1))).value
        C == ContinuationTerm(r_i, TreeValue(i + 1, j + 1),
                              TreeValue(i + 1, j))
    IN  IF i = N THEN PayoffTerm(N, j)
        ELSE IF ret.opt.style = "American" THEN MaxTerm(C, PayoffTerm(i, j))
        ELSE C

TreeCall == ret.op = "tree" /\ ret.pc # "thrown"

(* C21: once the backward step of level i is over, prices[j] = V_{i,j} for *)
(* j = 0..i; within a level the entries already assigned hold the values   *)
(* of level i and the others those of level i + 1; no entry is read after  *)
(* it was overwritten for the same level; the returned value is V_{0,0}.   *)
C21_RollingVector ==
    TreeCall =>
        /\ ret.pc \in {"level", "done"} =>
              \A j \in 0..ret.i : ret.prices[j + 1] = TreeValue(ret.i, j)
        /\ ret.pc = "node" =>
              \A j \in 0..(ret.i + 1) :
                 ret.prices[j + 1] = IF j \in ret.written
                                     THEN TreeValue(ret.i, j)
                                     ELSE TreeValue(ret.i + 1, j)
        /\ ~ret.stale
        /\ ret.pc = "done" => ret.price = TreeValue(0, 0)

(* An American price returned from a tree of three levels or more. *)
C21_Witness ==
    /\ ret.op = "tree"
    /\ ret.pc = "done"
    /\ pricer.config.binomialSteps >= 3
    /\ Len(pricer.config.yieldCurve) = 2
    /\ ret.opt.style = "American"
    /\ ret.price = TreeValue(0, 0)

----------------------------------------------------------------------------
(* The Longstaff-Schwartz backward pass.                                   *)

LsmCall == ret.op = "lsm"

(* The paths whose cash flow or exercise index the last step changed. *)
Remarked ==
    { i \in 1..Len(ret.paths) :
        \/ ret.cashFlow[i] # ret.before.cashFlow[i]
        \/ ret.exerciseTime[i] # ret.before.exerciseTime[i] }

(* C23: throughout the backward pass every exercise index is in            *)
(* 1..N_steps; every cash flow is the payoff at the exercise index and is  *)
(* >= 0; the step at t re-marks a path only if its intrinsic value at t is *)
(* positive, its exercise index was still N_steps and the intrinsic value  *)
(* is strictly greater than the fitted continuation value; every path is   *)
(* re-marked at most once and does not change afterwards; step 0 is never  *)
(* examined.                                                               *)
C23_BackwardPass ==
    LsmCall =>
        LET NSteps == pricer.config.mcTimeStepsPerPath
        IN  /\ \A i \in 1..Len(ret.paths) :
                  /\ ret.exerciseTime[i] \in 1..NSteps
                  /\ ret.cashFlow[i] =
                        LsmPayoff(ret.opt,
                                  ret.paths[i][ret.exerciseTime[i] + 1])
                  /\ Ge(ret.cashFlow[i], Zero)
                  /\ ret.times[i] <= 1
                  /\ ret.times[i] = 1 <=> ret.exerciseTime[i] < NSteps
            /\ ret.step >= 1
            /\ ret.t >= 0
            /\ ret.before # <<>> =>
                  \A i \in 1..Len(ret.paths) :
                     /\ i \in Remarked =>
                           /\ Gt(LsmPayoff(ret.opt, ret.paths[i][ret.step + 1]),
                                 Zero)
                           /\ ret.before.exerciseTime[i] = NSteps
                           /\ ret.exerciseTime[i] = ret.step
                           /\ ret.fit # <<>>
                           /\ Gt(LsmPayoff(ret.opt, ret.paths[i][ret.step + 1]),
                                 Continuation(ret.fit[1],
                                              ret.paths[i][ret.step + 1]))
                     /\ ret.before.exerciseTime[i] < NSteps =>
                           i \notin Remarked

(* After the step at t = 1: a path exercised at t = 2 that is in the money *)
(* at t = 1, next to a path that the step at t = 1 re-marked.              *)
C23_Witness ==
    /\ LsmCall
    /\ ret.step = 1
    /\ \E i, k \in 1..Len(ret.paths) :
          /\ ret.exerciseTime[i] = 2
          /\ Gt(LsmPayoff(ret.opt, ret.paths[i][2]), Zero)
          /\ k \in Remarked
          /\ ret.exerciseTime[k] = 1

(* The number of distinct spot values among the paths of the regression. *)
DistinctSpots ==
    Cardinality({ ret.paths[ret.indices[k]][ret.step + 1] :
                    k \in 1..Len(ret.indices) })

(* D < 10^-10 for a rational n/d with d < 2^31 < 10^10: n <= 0. *)
BelowThreshold(D) == IsFin(D) /\ D.n <= 0

(* C24: a step whose determinant is less than 10^-10, which includes the   *)
(* steps with no path in the money and those whose paths in the money have *)
(* fewer than three distinct spot values, changes no cash flow and no      *)
(* exercise index, and the pass goes on with t - 1.                        *)
C24_Original ==
    (LsmCall /\ ret.before # <<>>
        /\ (ret.indices = <<>> \/ DistinctSpots < 3
              \/ BelowThreshold(ret.D)))
    => /\ ret.cashFlow = ret.before.cashFlow
       /\ ret.exerciseTime = ret.before.exerciseTime
       /\ ret.t = ret.step - 1

====
